---- MODULE Spec2Model ----
(***************************************************************************)
(* Kill-feed ingestion of abakedjoetato/DiscordKillfeed:                   *)
(*   KillfeedParser   (src/bot/parsers/killfeed_parser.py)                 *)
(*   HistoricalParser (src/attached_assets/Ekfv10-main/bot/parsers/        *)
(*                     historical_parser.py)                               *)
(*   DatabaseManager  (src/attached_assets/Ekfv10-main/bot/models/         *)
(*                     database.py)                                        *)
(* The bot runs on one asyncio event loop: code between two awaits is one  *)
(* atomic step, and every awaited store call is a point where another task *)
(* may run.  Each action below is one awaited call together with the       *)
(* synchronous code that follows it up to the next await.                  *)
(***************************************************************************)
EXTENDS Integers, Sequences, FiniteSets, TLC

(***************************************************************************)
(* Text.  A raw line is a sequence of tokens: the delimiter ",", the blank *)
(* " ", and words (maximal runs of other characters).  A field is the      *)
(* sequence of tokens between two delimiters.                              *)
(***************************************************************************)
Comma == ","
Ws == " "

TsIso == "2024-01-01T00:00:00Z"
TsAlt == "2024-1-1 0:00:00"
TsBad == "yesterday"

\* str.strip() on the left: leading blanks removed.
RECURSIVE lstrip(_)
lstrip(s) ==
  IF s # <<>> /\ Head(s) = Ws THEN lstrip(Tail(s)) ELSE s

\* str.strip() on the right: trailing blanks removed.
RECURSIVE rstrip(_)
rstrip(s) ==
  IF s # <<>> /\ s[Len(s)] = Ws THEN rstrip(SubSeq(s, 1, Len(s) - 1)) ELSE s

\* str.strip()
strip(s) == rstrip(lstrip(s))

\* str.split(','): the fields between the delimiters; '' splits into [''].
RECURSIVE split(_)
split(s) ==
  IF s = <<>> THEN << <<>> >>
  ELSE LET rest == split(Tail(s)) IN
       IF Head(s) = Comma THEN << <<>> >> \o rest
       ELSE << <<Head(s)>> \o Head(rest) >> \o Tail(rest)

\* str.lower() of one word.
LowerWord(w) ==
  CASE w = "Suicide_by_relocation" -> "suicide_by_relocation"
    [] w = "Suicide" -> "suicide"
    [] w = "Relocation" -> "relocation"
    [] w = "AK74" -> "ak74"
    [] w = "Falling" -> "falling"
    [] OTHER -> w

\* lower as it would be if it kept the case.
lower_KeepsCase(s) == s

\* str.lower()
lower(s) == [i \in 1..Len(s) |-> LowerWord(s[i])]

\* s.startswith('suicide'), s already lowercased.
startswith_suicide(s) ==
  s # <<>> /\ s[1] \in {"suicide", "suicide_by_relocation"}

\* contains_relocation as the test `s == 'suicide_by_relocation'`.
contains_relocation_WholeText(s) == s = <<"suicide_by_relocation">>

\* 'relocation' in s, s already lowercased.
contains_relocation(s) ==
  \E i \in 1..Len(s) : s[i] \in {"relocation", "suicide_by_relocation"}

\* datetime.fromisoformat(ts.replace('Z', '+00:00')) succeeds.
fromisoformat_ok(ts) == ts = <<TsIso>>

\* datetime.strptime(ts, '%Y-%m-%d %H:%M:%S') succeeds.
strptime_ok(ts) == ts = <<TsAlt>>

\* float(word) in tenths, for the words float() accepts.
FloatWords == {"150.5", "0", "-5"}
FloatOfWord(w) ==
  CASE w = "150.5" -> 1505
    [] w = "0" -> 0
    [] w = "-5" -> -50
    [] OTHER -> 0

\* distance_float with the handler of lines 67-68 returning -1.0.
distance_float_HandlerMinusOne(d) ==
  IF d = <<>> \/ d = <<"N/A">> THEN 0
  ELSE IF Len(strip(d)) = 1 /\ strip(d)[1] \in FloatWords
       THEN FloatOfWord(strip(d)[1])
       ELSE -10

\* float(distance) if distance and distance != 'N/A' else 0.0, ValueError -> 0.0
\* (float() ignores surrounding blanks).
distance_float(d) ==
  IF d = <<>> \/ d = <<"N/A">> THEN 0
  ELSE IF Len(strip(d)) = 1 /\ strip(d)[1] \in FloatWords
       THEN FloatOfWord(strip(d)[1])
       ELSE 0

None == [ok |-> FALSE]

\* parse_csv_line with the test `len(parts) != 5`.
parse_csv_line_FiveOnly(line) ==
  LET parts == split(strip(line)) IN
  IF Len(parts) # 5 THEN None
  ELSE LET timestamp_str == parts[1]
           killer == parts[2]
           victim == parts[3]
           weapon == parts[4]
           distance == parts[5]
           is_suicide == killer = victim \/ startswith_suicide(lower(weapon))
       IN
       IF ~(fromisoformat_ok(timestamp_str) \/ strptime_ok(timestamp_str))
       THEN None  \* ValueError of strptime, caught at line 80
       ELSE [ok |-> TRUE,
             timestamp |-> timestamp_str,
             killer |-> killer,
             victim |-> victim,
             weapon |-> IF is_suicide
                        THEN IF contains_relocation(lower(weapon))
                             THEN <<"Menu Suicide">>
                             ELSE IF lower(weapon) = <<"suicide_by_relocation">>
                                  THEN <<"Menu Suicide">>
                                  ELSE <<"Suicide">>
                        ELSE weapon,
             distance |-> distance_float(distance),
             is_suicide |-> is_suicide,
             raw_line |-> strip(line)]

\* KillfeedParser.parse_csv_line: None, or the kill_data dictionary.
parse_csv_line(line) ==
  LET parts == split(strip(line)) IN
  IF Len(parts) < 5 THEN None
  ELSE LET timestamp_str == parts[1]
           killer == parts[2]
           victim == parts[3]
           weapon == parts[4]
           distance == parts[5]
           is_suicide == killer = victim \/ startswith_suicide(lower(weapon))
       IN
       IF ~(fromisoformat_ok(timestamp_str) \/ strptime_ok(timestamp_str))
       THEN None  \* ValueError of strptime, caught at line 80
       ELSE [ok |-> TRUE,
             timestamp |-> timestamp_str,
             killer |-> killer,
             victim |-> victim,
             weapon |-> IF is_suicide
                        THEN IF contains_relocation(lower(weapon))
                             THEN <<"Menu Suicide">>
                             ELSE IF lower(weapon) = <<"suicide_by_relocation">>
                                  THEN <<"Menu Suicide">>
                                  ELSE <<"Suicide">>
                        ELSE weapon,
             distance |-> distance_float(distance),
             is_suicide |-> is_suicide,
             raw_line |-> strip(line)]

\* `not line.strip()`
is_blank(line) == strip(line) = <<>>

(***************************************************************************)
(* The lines the remote files of the model hold.                           *)
(***************************************************************************)
LinePvp == <<TsIso, Comma, "Alice", Comma, "Bob", Comma, "AK74", Comma, "150.5">>
LineSuicide ==
  <<TsIso, Comma, "Alice", Comma, "Bob", Comma, "Suicide_by_relocation", Comma, "N/A">>
LineBad == <<TsBad, Comma, "Alice", Comma, "Bob", Comma, "AK74", Comma, "0">>
LineBlank == <<Ws>>
Lines == {LinePvp, LineSuicide, LineBad, LineBlank}

\* LinePvp as a log holds it with a blank behind it (splitlines() removes the
\* line break only).
LinePvpPadded == LinePvp \o <<Ws>>
PaddedLines == {LinePvp, LinePvpPadded}
Players == {<<"Alice">>, <<"Bob">>}

\* parse_csv_line and the blank test of the loops are pure: their values on
\* the lines the logs hold.
ParsedLine == [line \in Lines \cup PaddedLines |-> parse_csv_line(line)]
BlankLine == [line \in Lines \cup PaddedLines |-> is_blank(line)]

\* Bounds of the model: the lines one fetch returns at most, and the lines all
\* fetches of one behaviour return at most, per specification.
MaxBatch == 2
MaxFed == 1
MaxFedKf == 4
MaxFedHp == 2
MaxFedMix == 2
MaxFedRestart == 3

RECURSIVE SeqsUpTo(_, _)
SeqsUpTo(S, n) ==
  IF n = 0 THEN {<<>>}
  ELSE LET shorter == SeqsUpTo(S, n - 1) IN
       shorter \cup {Append(q, x) : q \in {r \in shorter : Len(r) = n - 1}, x \in S}

\* What one file can hold.
Batches == SeqsUpTo(Lines, MaxBatch)

(***************************************************************************)
(* Fetching.  A remote is what one fetch finds: the mode of the bot, which *)
(* transport steps succeed, and the files of the deathlogs directory in    *)
(* listing order, each with its name (by rank in name order), modification *)
(* time, whether its name ends in .csv, and its lines (taken as text).     *)
(***************************************************************************)
FileOf(name, mtime, csv, lines) ==
  [name |-> name, mtime |-> mtime, csv |-> csv, lines |-> lines]

Listings ==
  {<<>>}
  \cup {<<FileOf(1, 1, c, b)>> : c \in BOOLEAN, b \in Batches}
  \cup {<<FileOf(n[1], m[1], TRUE, bb[1]), FileOf(n[2], m[2], TRUE, bb[2])>> :
          n \in {<<1, 2>>, <<2, 1>>},
          m \in {<<1, 1>>, <<1, 2>>, <<2, 1>>},
          bb \in {p \in Batches \X Batches : Len(p[1]) + Len(p[2]) <= MaxBatch}}

Remotes ==
  [dev_mode : {TRUE}, credentials : {TRUE}, connect : {TRUE},
   directory : BOOLEAN, listing : BOOLEAN, read : BOOLEAN, files : Listings]
  \cup
  [dev_mode : {FALSE}, credentials : BOOLEAN, connect : BOOLEAN,
   directory : BOOLEAN, listing : BOOLEAN, read : BOOLEAN, files : Listings]

\* The entries whose name ends in .csv (glob('*.csv'), endswith('.csv')).
csv_files(files) == SelectSeq(files, LAMBDA f : f.csv)

\* list.sort(key=...) is stable: x goes behind the entries whose key is not
\* greater than its own.
RECURSIVE insert_sorted(_, _, _)
insert_sorted(sorted, x, field) ==
  IF sorted = <<>> THEN <<x>>
  ELSE IF Head(sorted)[field] <= x[field]
  THEN <<Head(sorted)>> \o insert_sorted(Tail(sorted), x, field)
  ELSE <<x>> \o sorted

RECURSIVE sort_by(_, _)
sort_by(files, field) ==
  IF files = <<>> THEN <<>>
  ELSE insert_sorted(sort_by(SubSeq(files, 1, Len(files) - 1), field),
                     files[Len(files)], field)

\* max(csv_files, key=mtime), and csv_files.sort(key=mtime, reverse=True)[0]:
\* the first entry, in listing order, whose modification time is the greatest.
most_recent(files) ==
  files[CHOOSE i \in 1..Len(files) :
          /\ \A j \in 1..Len(files) : files[j].mtime <= files[i].mtime
          /\ \A j \in 1..(i - 1) : files[j].mtime < files[i].mtime]

\* all_lines.extend(content.splitlines()) for each file in turn.
RECURSIVE all_lines(_)
all_lines(files) ==
  IF files = <<>> THEN <<>> ELSE Head(files).lines \o all_lines(Tail(files))

\* get_sftp_csv_files as it would be if it returned the lines of the most
\* recent file whatever step had failed.
kf_get_sftp_csv_files_IgnoresFailure(remote) ==
  IF csv_files(remote.files) = <<>> THEN <<>>
  ELSE most_recent(csv_files(remote.files)).lines

\* KillfeedParser.get_sftp_csv_files: every failure ends in `return []`.
kf_get_sftp_csv_files(remote) ==
  IF ~remote.credentials THEN <<>>                       \* line 95
  ELSE IF ~remote.connect THEN <<>>                      \* line 138
  ELSE IF ~remote.directory THEN <<>>                    \* line 116
  ELSE IF ~remote.listing THEN <<>>                      \* line 138
  ELSE IF csv_files(remote.files) = <<>> THEN <<>>       \* line 134
  ELSE IF ~remote.read THEN <<>>                         \* line 138
  ELSE most_recent(csv_files(remote.files)).lines

\* KillfeedParser.get_dev_csv_files.
kf_get_dev_csv_files(remote) ==
  IF ~remote.listing THEN <<>>                           \* line 159
  ELSE IF ~remote.directory \/ csv_files(remote.files) = <<>> THEN <<>>  \* line 148
  ELSE IF ~remote.read THEN <<>>                         \* line 159
  ELSE most_recent(csv_files(remote.files)).lines

\* KillfeedParser.parse_server_killfeed, lines 270-273.
kf_fetch(remote) ==
  IF remote.dev_mode THEN kf_get_dev_csv_files(remote)
  ELSE kf_get_sftp_csv_files(remote)

\* The files a historical fetch reads, in the order it reads them: by name in
\* dev mode (line 61), by modification time over SFTP (line 111).
hp_read_order(remote) ==
  IF remote.dev_mode THEN sort_by(csv_files(remote.files), "name")
  ELSE sort_by(csv_files(remote.files), "mtime")

\* HistoricalParser.get_dev_csv_files.
hp_get_dev_csv_files(remote) ==
  IF ~remote.listing THEN <<>>                           \* line 72
  ELSE IF ~remote.directory \/ csv_files(remote.files) = <<>> THEN <<>>  \* line 56
  ELSE IF ~remote.read THEN <<>>                         \* line 72
  ELSE all_lines(hp_read_order(remote))

\* HistoricalParser.get_sftp_csv_files.
hp_get_sftp_csv_files(remote) ==
  IF ~remote.credentials THEN <<>>                       \* line 88
  ELSE IF ~remote.connect THEN <<>>                      \* line 128
  ELSE IF ~remote.directory THEN <<>>                    \* lines 119-124
  ELSE IF ~remote.listing THEN <<>>                      \* line 128
  ELSE IF csv_files(remote.files) # <<>> /\ ~remote.read THEN <<>>  \* line 128
  ELSE all_lines(hp_read_order(remote))

\* HistoricalParser.get_all_csv_files.
get_all_csv_files(remote) ==
  IF remote.dev_mode THEN hp_get_dev_csv_files(remote)
  ELSE hp_get_sftp_csv_files(remote)

\* A transport step of the fetch fails: credentials or directory missing,
\* or connecting, listing or reading fails.
TransportFails(remote) ==
  \/ ~remote.directory \/ ~remote.listing \/ ~remote.read
  \/ ~remote.dev_mode /\ (~remote.credentials \/ ~remote.connect)

\* The files with lines among those read come in ascending modification time.
InMtimeOrder(files) ==
  LET with_lines == SelectSeq(files, LAMBDA f : f.lines # <<>>) IN
  \A i, j \in 1..Len(with_lines) :
    i < j => with_lines[i].mtime <= with_lines[j].mtime

\* What the fetch of the scheduled job returns over all remotes, with whether
\* the transport failed.
KfFetchResults ==
  {[lines |-> kf_fetch(r), failed |-> TransportFails(r)] : r \in Remotes}

\* What the fetch of a refresh returns over all remotes, with whether the
\* files it read came in ascending modification time.
HpFetchResults ==
  {[lines |-> get_all_csv_files(r),
    mtime_order |-> TransportFails(r) \/ InMtimeOrder(hp_read_order(r))] :
     r \in Remotes}

(***************************************************************************)
(* The registered servers, as (guild_id, server_id), in the order the      *)
(* guilds collection yields them.                                          *)
(***************************************************************************)
Servers == << <<"1", "s1">>, <<"2", "s1">> >>
ServerSet == {Servers[n] : n \in 1..Len(Servers)}

\* server_key without the guild.
server_key_NoGuild(srv) == srv[2]

\* f"{guild_id}_{server_id}": a guild_id is an int and stands for its decimal
\* digits, a server_id is any string.
server_key(srv) == srv[1] \o "_" \o srv[2]

\* Guild ids and server ids whose keys could be taken for one another.
GuildIds == {"1", "2", "12"}
ServerIds == {"s1", "2_s1", "_s1", "1"}

\* The refresh_server_data calls that can be in flight at once: the one of
\* Premium.server_refresh, which passes ctx.channel, and the one of
\* auto_refresh_after_server_add, which passes no channel.
Tasks == {"server_refresh", "auto_refresh"}
HasChannel(t) == t = "server_refresh"

VARIABLES
  parsed_lines,      \* KillfeedParser.parsed_lines: server_key -> set of lines
  active_refreshes,  \* HistoricalParser.active_refreshes: refresh_key -> bool
  pvp_data,          \* db.pvp_data: the set of PlayerStatRecord documents
  kill_events,       \* db.kill_events: per (guild, server), in insertion order
  kf,                \* the scheduled run_killfeed_parser job
  hp,                \* the refresh_server_data calls, per task
  budget,            \* lines the fetches can still return
  hist,              \* history of the scheduled job, per (guild, server):
                     \*   fed: the lines fetched so far
                     \*   refed: the lines fetched more than once
                     \*   applied: the lines process_kill_event was called for
                     \*   pending: the new events of the batch not yet applied
                     \*   failed: the transport failed in the last fetch
  guilds,            \* db.guilds: the registered servers, as guilds.find yields them
  removal,           \* the Premium.server_remove command
  call,              \* a parse_csv_line or get_sftp_csv_files call: its argument
                     \* and what it returned
  deathlogs,         \* the files of the deathlogs directory of a server
  adding,            \* the Premium.server_add commands, per call
  sethome,           \* the Premium.sethome commands, per guild
  home_servers       \* db.guilds: the guilds whose is_home_server is set

\* The variables of the files and of the commands of the Premium cog.
others == <<deathlogs, adding, sethome, home_servers>>

vars ==
  <<parsed_lines, active_refreshes, pvp_data, kill_events, kf, hp, budget, hist,
    guilds, removal, call, others>>

(***************************************************************************)
(* The document store (MongoDB through motor).                             *)
(***************************************************************************)
Now == "now"

Max(a, b) == IF a >= b THEN a ELSE b

\* collection.find_one({guild_id, server_id, player_name}): the matching documents.
find_docs(coll, g, s, p) ==
  {d \in coll : d.guild_id = g /\ d.server_id = s /\ d.player_name = p}

\* Field names the server refuses to store through $set.
IsOperatorName(f) == f \in {"$inc", "$set", "$setOnInsert"}

\* collection.update_one(filter, {"$setOnInsert": on_insert, "$set": set},
\* upsert=True).  The server rejects the update document (WriteError) when a path
\* is named by both operators or when $set names a '$'-prefixed field; otherwise
\* it sets the fields of the matching document, or inserts filter + on_insert +
\* set when none matches.
update_one(coll, g, s, p, on_insert, set) ==
  IF DOMAIN on_insert \cap DOMAIN set # {} \/ \E f \in DOMAIN set : IsOperatorName(f)
  THEN [raised |-> TRUE, coll |-> coll]
  ELSE LET found == find_docs(coll, g, s, p) IN
       IF found # {}
       THEN [raised |-> FALSE,
             coll |-> (coll \ found) \cup {set @@ d : d \in found}]
       ELSE [raised |-> FALSE,
             coll |-> coll \cup
               {set @@ on_insert @@ [guild_id |-> g, server_id |-> s, player_name |-> p]}]

\* DatabaseManager.update_pvp_stats, lines 150-163: the $setOnInsert document.
default_stats(g, s, player_name) ==
  [guild_id |-> g, server_id |-> s, player_name |-> player_name,
   kills |-> 0, deaths |-> 0, suicides |-> 0, kdr |-> <<0, 1>>,
   longest_streak |-> 0, current_streak |-> 0,
   favorite_weapon |-> "None", total_distance |-> 0, last_updated |-> Now]

\* update_pvp_stats with a store that adds the increment to the record (or to
\* a fresh default record) and leaves every other field, kdr too, as it was.
update_pvp_stats_IncKeepsKdr(coll, g, s, player_name, stats_update) ==
  LET found == find_docs(coll, g, s, player_name)
      base == IF found # {} THEN CHOOSE d \in found : TRUE
              ELSE default_stats(g, s, player_name)
      inc == stats_update["$inc"]
      f == CHOOSE f \in DOMAIN inc : TRUE
  IN (coll \ found) \cup {[base EXCEPT ![f] = @ + inc[f]]}

\* update_pvp_stats with a store that replaces the record by the default
\* record carrying the increment as its value.
update_pvp_stats_Overwrites(coll, g, s, player_name, stats_update) ==
  LET found == find_docs(coll, g, s, player_name)
      inc == stats_update["$inc"]
      f == CHOOSE f \in DOMAIN inc : TRUE
  IN (coll \ found) \cup {[default_stats(g, s, player_name) EXCEPT ![f] = inc[f]]}

\* DatabaseManager.update_pvp_stats: the pvp_data collection after the call.
\* (find_one is awaited only when stats_update names kills or deaths.)
update_pvp_stats(coll, g, s, player_name, stats_update) ==
  LET found == find_docs(coll, g, s, player_name)
      current_doc == CHOOSE d \in found : TRUE
      kills == IF "kills" \in DOMAIN stats_update THEN stats_update["kills"]
               ELSE IF found # {} THEN current_doc.kills ELSE 0
      deaths == IF "deaths" \in DOMAIN stats_update THEN stats_update["deaths"]
                ELSE IF found # {} THEN current_doc.deaths ELSE 0
      with_kdr ==
        IF "kills" \in DOMAIN stats_update \/ "deaths" \in DOMAIN stats_update
        THEN ("kdr" :> <<kills, Max(deaths, 1)>>) @@ stats_update
        ELSE stats_update
      with_time == ("last_updated" :> Now) @@ with_kdr
      r == update_one(coll, g, s, player_name,
                      default_stats(g, s, player_name), with_time)
  IN IF r.raised THEN coll  \* except Exception: return False
     ELSE r.coll

\* add_kill_event with an insert that stores the document twice.
add_kill_event_Twice(events, g, s, kill_data) ==
  LET doc == kill_data @@ [guild_id |-> g, server_id |-> s, timestamp |-> Now]
  IN Append(Append(events, doc), doc)

\* DatabaseManager.add_kill_event: the documents of (guild, server) after insert_one.
add_kill_event(events, g, s, kill_data) ==
  Append(events, kill_data @@ [guild_id |-> g, server_id |-> s, timestamp |-> Now])

\* delete_many as it would be if it deleted nothing.
delete_many_Nothing(coll, g, s) == coll

\* pvp_data.delete_many({guild_id, server_id})
delete_many(coll, g, s) == {d \in coll : ~(d.guild_id = g /\ d.server_id = s)}

\* The two update_pvp_stats calls' arguments, in call order, that
\* KillfeedParser.process_kill_event makes for kill_data.
process_kill_event_updates(kill_data) ==
  IF kill_data.is_suicide
  THEN << <<kill_data.victim, "$inc" :> [suicides |-> 1]>> >>
  ELSE << <<kill_data.killer, "$inc" :> [kills |-> 1]>>,
          <<kill_data.victim, "$inc" :> [deaths |-> 1]>> >>

\* refresh_updates as it would be if line 297 incremented deaths for every
\* event.
refresh_updates_AlwaysDeaths(kill_data) ==
  (IF ~kill_data.is_suicide
   THEN << <<kill_data.killer, "$inc" :> [kills |-> 1]>> >>
   ELSE <<>>)
  \o << <<kill_data.victim, "$inc" :> [deaths |-> 1]>> >>

\* The update_pvp_stats calls' arguments, in call order, that the loop of
\* HistoricalParser.refresh_server_data makes for kill_data.
refresh_updates(kill_data) ==
  (IF ~kill_data.is_suicide
   THEN << <<kill_data.killer, "$inc" :> [kills |-> 1]>> >>
   ELSE <<>>)
  \o << <<kill_data.victim,
          "$inc" :> (IF ~kill_data.is_suicide THEN [deaths |-> 1]
                     ELSE [suicides |-> 1])>> >>

(***************************************************************************)
(* Helpers of the two line loops.                                          *)
(***************************************************************************)
\* dict.get(key, default)
Get(f, k, default) == IF k \in DOMAIN f THEN f[k] ELSE default

LineSet(lines) == {lines[n] : n \in 1..Len(lines)}

Occurrences(lines, l) == Cardinality({n \in 1..Len(lines) : lines[n] = l})

\* The lines of a batch that are events not seen before: not blank, not in
\* the set when the batch was fetched, and parsed.
NewEvents(lines, seen) ==
  {l \in LineSet(lines) : ~BlankLine[l] /\ l \notin seen /\ ParsedLine[l].ok}

\* The loop of parse_server_killfeed as it would be if a line that fails to
\* parse ended the batch.
RECURSIVE next_new_event_StopsAtFailure(_, _, _)
next_new_event_StopsAtFailure(lines, i, seen) ==
  IF i > Len(lines) THEN i
  ELSE IF BlankLine[lines[i]] \/ lines[i] \in seen
  THEN next_new_event_StopsAtFailure(lines, i + 1, seen)
  ELSE IF ParsedLine[lines[i]].ok THEN i
  ELSE Len(lines) + 1

\* KillfeedParser.parse_server_killfeed, lines 286-291: the index of the first
\* line from i on that is processed (not blank, not in the set, parsed), or
\* Len(lines) + 1 when the loop runs off the end.
RECURSIVE next_new_event(_, _, _)
next_new_event(lines, i, seen) ==
  IF i > Len(lines) THEN i
  ELSE IF BlankLine[lines[i]] \/ lines[i] \in seen THEN next_new_event(lines, i + 1, seen)
  ELSE IF ParsedLine[lines[i]].ok THEN i
  ELSE next_new_event(lines, i + 1, seen)

\* The loop of refresh_server_data as it would be if it skipped the lines
\* that a dedup set holds.
RECURSIVE next_event_SkipsSeen(_, _)
next_event_SkipsSeen(lines, i) ==
  IF i > Len(lines) THEN i
  ELSE IF BlankLine[lines[i]]
          \/ lines[i] \in UNION {parsed_lines[k] : k \in DOMAIN parsed_lines}
  THEN next_event_SkipsSeen(lines, i + 1)
  ELSE IF ParsedLine[lines[i]].ok THEN i
  ELSE next_event_SkipsSeen(lines, i + 1)

\* HistoricalParser.refresh_server_data, lines 278-284: the index of the first
\* line from i on that is processed (not blank, parsed), or Len(lines) + 1.
RECURSIVE next_event(_, _)
next_event(lines, i) ==
  IF i > Len(lines) THEN i
  ELSE IF BlankLine[lines[i]] THEN next_event(lines, i + 1)
  ELSE IF ParsedLine[lines[i]].ok THEN i
  ELSE next_event(lines, i + 1)

(***************************************************************************)
(* Initial state: both parsers just constructed; the store holds whatever  *)
(* was persisted before the process started.                               *)
(***************************************************************************)
SeedDoc ==
  [guild_id |-> "1", server_id |-> "s1", player_name |-> <<"Alice">>,
   kills |-> 2, deaths |-> 1, suicides |-> 1, kdr |-> <<2, 1>>,
   longest_streak |-> 0, current_streak |-> 0,
   favorite_weapon |-> "None", total_distance |-> 0, last_updated |-> Now]

KfIdle == [pc |-> "idle", queue |-> <<>>, lines |-> <<>>, i |-> 0, upd |-> 0]

\* Line 304: the seconds between two progress updates.
ProgressSeconds == 30

\* The longest time the clock of a call is followed.
MaxClock == 60

\* The seconds an awaited call can take.
Durations == {0, ProgressSeconds}

Min(a, b) == IF a <= b THEN a ELSE b

\* Line 275 (last_update_time = now) as the call's clock: the seconds since
\* last_update_time, the seconds since the loop began (followed up to
\* ProgressSeconds), and the number of embeds sent or edited so far (counted
\* up to two).
NoClock == [since_update |-> 0, elapsed |-> 0, sink_calls |-> 0]

\* The clock d seconds later.
Later(clock, d) ==
  [clock EXCEPT !.since_update = Min(@ + d, MaxClock),
                !.elapsed = Min(@ + d, ProgressSeconds)]

\* One more embed sent or edited.
SinkCalled(clock) == [clock EXCEPT !.sink_calls = Min(@ + 1, 2)]

\* auto_refresh_after_server_add, line 328: asyncio.sleep(30).
AutoRefreshDelay == 30

\* The steps in which the time of a sleep passes.
SleepSteps == {AutoRefreshDelay \div 2, AutoRefreshDelay}

HpIdle ==
  [pc |-> "idle", srv |-> Servers[1], lines |-> <<>>, i |-> 0,
   upd |-> 0, processed_count |-> 0, exit |-> "none",
   cleared |-> {},         \* the collections its delete_many calls emptied
   mtime_order |-> TRUE,   \* its fetch read the files in ascending mtime
   clock |-> NoClock,      \* what the clock read at line 303 tells the call
   caller |-> "none",      \* where the caller is before it makes the call
   slept |-> 0]            \* the seconds its caller has slept

\* What is kept about the past of a behaviour, as it is when a process starts.
NoHistory ==
  [fed |-> [srv \in ServerSet |-> {}],
   refed |-> [srv \in ServerSet |-> {}],
   applied |-> [srv \in ServerSet |-> {}],
   pending |-> [srv \in ServerSet |-> {}],
   failed |-> FALSE,
   restarted |-> FALSE,                     \* the process was started again
   before |-> [srv \in ServerSet |-> {}]]   \* the set of srv when it ended

\* Premium.server_remove is not running; removed: the servers it has removed.
NoRemoval == [pc |-> "idle", srv |-> Servers[1], updated_servers |-> <<>>, removed |-> {}]

\* No parse_csv_line call is looked at.
NoCall == [pc |-> "none"]

\* The two server_add commands that can be under way, and no command of them
\* begun.
AddCalls == {"first", "second"}
NoAdd == [pc |-> "idle", serverid |-> "", added_at |-> 0, success |-> FALSE]

\* The guilds the bot owner can run sethome in.
HomeGuilds == {"1", "2"}

\* No file is written, no command of the cog has begun, no guild is home.
NoCommands ==
  /\ deathlogs = <<>>
  /\ adding = [c \in AddCalls |-> NoAdd]
  /\ sethome = [g \in HomeGuilds |-> "idle"]
  /\ home_servers = {}

InitWith(max_fed) ==
  /\ parsed_lines = [k \in {} |-> {}]
  /\ active_refreshes = [k \in {} |-> FALSE]
  /\ pvp_data = {SeedDoc}
  /\ kill_events = [srv \in ServerSet |-> <<>>]
  /\ kf = KfIdle
  /\ hp = [t \in Tasks |-> HpIdle]
  /\ budget = max_fed
  /\ hist = NoHistory
  /\ guilds = Servers
  /\ removal = NoRemoval
  /\ call = NoCall
  /\ NoCommands

(***************************************************************************)
(* KillfeedParser: the scheduled incremental pass.                         *)
(***************************************************************************)
\* parse_server_killfeed returned: the loop of run_killfeed_parser goes on.
KfNextServer ==
  [pc |-> IF Tail(kf.queue) = <<>> THEN "idle" ELSE "fetch",
   queue |-> Tail(kf.queue), lines |-> <<>>, i |-> 0, upd |-> 0]

\* run_killfeed_parser, started by the scheduler: guilds.find({}).
RunKillfeedParser ==
  /\ kf.pc = "idle"
  /\ kf' = [KfIdle EXCEPT !.pc = IF guilds = <<>> THEN "idle" ELSE "fetch",
                          !.queue = guilds]
  /\ UNCHANGED <<parsed_lines, active_refreshes, pvp_data, kill_events, hp, budget, hist,
                 guilds, removal, call, others>>

\* The failure of one server's pass as it would be without the handler of
\* parse_server_killfeed: the handler of run_killfeed_parser ends the run.
KfServerFails_AbortsRun ==
  /\ kf.pc = "fetch"
  /\ kf' = KfIdle
  /\ UNCHANGED <<parsed_lines, active_refreshes, pvp_data, kill_events, hp, budget, hist,
                 guilds, removal, call, others>>

\* parse_server_killfeed, lines 265-266 and 298-299: server_config.get
\* raises (a servers entry that is no dictionary); the handler logs it and
\* the call returns.
KfServerFails ==
  /\ kf.pc = "fetch"
  /\ kf' = KfNextServer
  /\ UNCHANGED <<parsed_lines, active_refreshes, pvp_data, kill_events, hp, budget, hist,
                 guilds, removal, call, others>>

\* parse_server_killfeed up to its first store call: the fetch, the empty
\* check, the lazily created set and the loop up to the first new event.
KfFetchFrom(results) ==
  /\ kf.pc = "fetch"
  /\ \E r \in results :
       LET lines == r.lines
           srv == Head(kf.queue)
           key == server_key(srv)
           seen == Get(parsed_lines, key, {})
           j == next_new_event(lines, 1, seen)
       IN
       /\ Len(lines) <= budget
       /\ budget' = budget - Len(lines)
       /\ hist' = [hist EXCEPT
                     !.fed[srv] = @ \cup LineSet(lines),
                     !.refed[srv] = @ \cup (hist.fed[srv] \cap LineSet(lines))
                                      \cup {l \in LineSet(lines) : Occurrences(lines, l) > 1},
                     !.pending[srv] = NewEvents(lines, seen),
                     !.failed = r.failed]
       /\ IF lines = <<>>
          THEN /\ kf' = KfNextServer
               /\ UNCHANGED parsed_lines
          ELSE /\ parsed_lines' = (key :> seen) @@ parsed_lines
               /\ kf' = IF j <= Len(lines)
                        THEN [kf EXCEPT !.pc = "add_kill_event", !.lines = lines, !.i = j]
                        ELSE KfNextServer
  /\ UNCHANGED <<active_refreshes, pvp_data, kill_events, hp, guilds, removal, call, others>>

KfFetch == KfFetchFrom(KfFetchResults)

\* process_kill_event, line 165: add_kill_event (its failure is swallowed).
KfAddKillEvent ==
  /\ kf.pc = "add_kill_event"
  /\ LET srv == Head(kf.queue)
         kill_data == ParsedLine[kf.lines[kf.i]]
     IN
     /\ \/ kill_events' = [kill_events EXCEPT
                             ![srv] = add_kill_event(@, srv[1], srv[2], kill_data)]
        \/ UNCHANGED kill_events
     /\ hist' = [hist EXCEPT !.applied[srv] = @ \cup {kf.lines[kf.i]},
                              !.pending[srv] = @ \ {kf.lines[kf.i]}]
  /\ kf' = [kf EXCEPT !.pc = "update_pvp_stats", !.upd = 1]
  /\ UNCHANGED <<parsed_lines, active_refreshes, pvp_data, hp, budget,
                 guilds, removal, call, others>>

\* process_kill_event, lines 167-185: one update_pvp_stats call.
KfUpdatePvpStats ==
  /\ kf.pc = "update_pvp_stats"
  /\ LET srv == Head(kf.queue)
         updates == process_kill_event_updates(ParsedLine[kf.lines[kf.i]])
         u == updates[kf.upd]
     IN
     /\ pvp_data' = update_pvp_stats(pvp_data, srv[1], srv[2], u[1], u[2])
     /\ kf' = IF kf.upd < Len(updates)
              THEN [kf EXCEPT !.upd = @ + 1]
              ELSE [kf EXCEPT !.pc = "send_embed", !.upd = 0]
  /\ UNCHANGED <<parsed_lines, active_refreshes, kill_events, hp, budget, hist,
                 guilds, removal, call, others>>

\* KfSendEmbed as it would be if every line the loop has passed, skipped ones
\* too, were added to the set.
KfSendEmbed_MarksSkipped ==
  /\ kf.pc = "send_embed"
  /\ LET key == server_key(Head(kf.queue))
         seen == parsed_lines[key] \cup {kf.lines[k] : k \in 1..kf.i}
         j == next_new_event(kf.lines, kf.i + 1, seen)
     IN
     /\ parsed_lines' = [parsed_lines EXCEPT ![key] = seen]
     /\ kf' = IF j <= Len(kf.lines)
              THEN [kf EXCEPT !.pc = "add_kill_event", !.i = j]
              ELSE KfNextServer
  /\ UNCHANGED <<active_refreshes, pvp_data, kill_events, hp, budget, hist,
                 guilds, removal, call, others>>

\* process_kill_event, line 188: send_killfeed_embed; then lines 293-294 and
\* the loop up to the next new event.
KfSendEmbed ==
  /\ kf.pc = "send_embed"
  /\ LET key == server_key(Head(kf.queue))
         seen == parsed_lines[key] \cup {kf.lines[kf.i]}
         j == next_new_event(kf.lines, kf.i + 1, seen)
     IN
     /\ parsed_lines' = [parsed_lines EXCEPT ![key] = seen]
     /\ kf' = IF j <= Len(kf.lines)
              THEN [kf EXCEPT !.pc = "add_kill_event", !.i = j]
              ELSE KfNextServer
  /\ UNCHANGED <<active_refreshes, pvp_data, kill_events, hp, budget, hist,
                 guilds, removal, call, others>>

NextKf ==
  \/ RunKillfeedParser
  \/ KfServerFails
  \/ KfFetch
  \/ KfAddKillEvent
  \/ KfUpdatePvpStats
  \/ KfSendEmbed

(***************************************************************************)
(* HistoricalParser.refresh_server_data, one call per task.                *)
(***************************************************************************)
Running(t) == hp[t].pc \notin {"idle", "returned"}

\* `return`: the call is over, its result is with the caller.
HpReturn(t, exit) ==
  [HpIdle EXCEPT !.pc = "returned", !.srv = hp[t].srv, !.exit = exit]

\* The value refresh_server_data returned.
ReturnValue(t) == hp[t].exit = "completed"

\* Lines 308-317 when the loop is over with processed_count = count: with an
\* embed message the completion embed is awaited first.
HpAfterLoop(t, guards, lines, count, clock) ==
  IF HasChannel(t)
  THEN /\ hp' = [hp EXCEPT ![t].pc = "complete", ![t].upd = 0, ![t].lines = lines,
                           ![t].processed_count = count, ![t].clock = clock]
       /\ active_refreshes' = guards
  ELSE /\ hp' = [hp EXCEPT ![t] = [HpReturn(t, "completed") EXCEPT
                                     !.processed_count = count]]
       /\ active_refreshes' = (server_key(hp[t].srv) :> FALSE) @@ guards

\* Woken without the sleep of line 328.
Woken_NoSleep(t) == hp[t].caller = "sleep"

\* auto_refresh_after_server_add, lines 328-329: the sleep is over and
\* refresh_server_data is called.
Woken(t) == hp[t].caller = "sleep" /\ hp[t].slept >= AutoRefreshDelay

\* Who calls refresh_server_data, and for which server: Premium.server_refresh
\* for the server of the command (lines 590-607), the task of
\* auto_refresh_after_server_add, once woken, for the server it was made for.
Called(t, srv) == IF HasChannel(t) THEN TRUE ELSE Woken(t) /\ srv = hp[t].srv

\* HpStart without the test of line 241: every call takes the guard.
HpStart_NoGuardTest(t) ==
  /\ hp[t].pc = "idle"
  /\ \E srv \in ServerSet :
       /\ Called(t, srv)
       /\ active_refreshes' = (server_key(srv) :> TRUE) @@ active_refreshes
       /\ hp' = [hp EXCEPT ![t] = [HpIdle EXCEPT
                   !.pc = IF HasChannel(t) THEN "send_initial" ELSE "clear_pvp",
                   !.srv = srv]]
  /\ UNCHANGED <<parsed_lines, pvp_data, kill_events, kf, budget, hist,
                 guilds, removal, call, others>>

\* Lines 236-260: the guard is tested and taken without an await in between.
HpStart(t) ==
  /\ hp[t].pc = "idle"
  /\ \E srv \in ServerSet :
       LET refresh_key == server_key(srv) IN
       /\ Called(t, srv)
       /\ IF Get(active_refreshes, refresh_key, FALSE)
          THEN /\ hp' = [hp EXCEPT ![t] = [HpIdle EXCEPT !.pc = "returned", !.srv = srv,
                                             !.exit = "rejected"]]
               /\ UNCHANGED active_refreshes
          ELSE /\ active_refreshes' = (refresh_key :> TRUE) @@ active_refreshes
               /\ hp' = [hp EXCEPT ![t] = [HpIdle EXCEPT
                           !.pc = IF HasChannel(t) THEN "send_initial" ELSE "clear_pvp",
                           !.srv = srv]]
  /\ UNCHANGED <<parsed_lines, pvp_data, kill_events, kf, budget, hist,
                 guilds, removal, call, others>>

\* Line 260: channel.send of the initial embed; when it raises, lines 319-323.
HpSendInitial(t) ==
  /\ hp[t].pc = "send_initial"
  /\ \/ /\ hp' = [hp EXCEPT ![t].pc = "clear_pvp", ![t].clock = SinkCalled(@)]
        /\ UNCHANGED active_refreshes
     \/ /\ hp' = [hp EXCEPT ![t] = HpReturn(t, "failed")]
        /\ active_refreshes' = (server_key(hp[t].srv) :> FALSE) @@ active_refreshes
  /\ UNCHANGED <<parsed_lines, pvp_data, kill_events, kf, budget, hist,
                 guilds, removal, call, others>>

\* clear_server_data, line 134: pvp_data.delete_many; when it raises, the
\* handler of clear_server_data ends the clearing (line 147).
HpClearPvp(t) ==
  /\ hp[t].pc = "clear_pvp"
  /\ \/ /\ pvp_data' = delete_many(pvp_data, hp[t].srv[1], hp[t].srv[2])
        /\ hp' = [hp EXCEPT ![t].pc = "clear_events", ![t].cleared = {"pvp_data"}]
     \/ /\ hp' = [hp EXCEPT ![t].pc = "fetch"]
        /\ UNCHANGED pvp_data
  /\ UNCHANGED <<parsed_lines, active_refreshes, kill_events, kf, budget, hist,
                 guilds, removal, call, others>>

\* clear_server_data, line 140: kill_events.delete_many.
HpClearEvents(t) ==
  /\ hp[t].pc = "clear_events"
  /\ \/ /\ kill_events' = [kill_events EXCEPT ![hp[t].srv] = <<>>]
        /\ hp' = [hp EXCEPT ![t].pc = "fetch", ![t].cleared = @ \cup {"kill_events"}]
     \/ /\ hp' = [hp EXCEPT ![t].pc = "fetch"]
        /\ UNCHANGED kill_events
  /\ UNCHANGED <<parsed_lines, active_refreshes, pvp_data, kf, budget, hist,
                 guilds, removal, call, others>>

\* HpFetch without line 270: the empty fetch returns with the guard held.
HpFetch_EmptyKeepsGuard(t) ==
  /\ hp[t].pc = "fetch"
  /\ \E r \in HpFetchResults :
       LET lines == r.lines
           j == next_event(lines, 1)
       IN
       /\ Len(lines) <= budget
       /\ budget' = budget - Len(lines)
       /\ IF lines = <<>>
          THEN /\ hp' = [hp EXCEPT ![t] = HpReturn(t, "empty")]
               /\ UNCHANGED active_refreshes
          ELSE IF j <= Len(lines)
          THEN /\ hp' = [hp EXCEPT ![t].pc = "add_kill_event", ![t].lines = lines,
                                   ![t].i = j, ![t].mtime_order = r.mtime_order]
               /\ UNCHANGED active_refreshes
          ELSE HpAfterLoop(t, active_refreshes, lines, 0, hp[t].clock)
  /\ UNCHANGED <<parsed_lines, pvp_data, kill_events, kf, hist, guilds, removal, call, others>>

\* Lines 266-284: get_all_csv_files, the empty check and the loop up to the
\* first event.
HpFetch(t) ==
  /\ hp[t].pc = "fetch"
  /\ \E r \in HpFetchResults :
       LET lines == r.lines
           j == next_event(lines, 1)
       IN
       /\ Len(lines) <= budget
       /\ budget' = budget - Len(lines)
       /\ IF lines = <<>>
          THEN /\ hp' = [hp EXCEPT ![t] = HpReturn(t, "empty")]
               /\ active_refreshes' = (server_key(hp[t].srv) :> FALSE) @@ active_refreshes
          ELSE IF j <= Len(lines)
          THEN /\ hp' = [hp EXCEPT ![t].pc = "add_kill_event", ![t].lines = lines,
                                   ![t].i = j, ![t].mtime_order = r.mtime_order]
               /\ UNCHANGED active_refreshes
          ELSE HpAfterLoop(t, active_refreshes, lines, 0, hp[t].clock)
  /\ UNCHANGED <<parsed_lines, pvp_data, kill_events, kf, hist, guilds, removal, call, others>>

\* The seconds an awaited call of task t can take: without an embed message
\* line 304 does not look at the clock, and the call's clock stands still.
TimeOf(t) == IF HasChannel(t) THEN Durations ELSE {0}

\* Line 286: add_kill_event (its failure is swallowed).
HpAddKillEvent(t) ==
  /\ hp[t].pc = "add_kill_event"
  /\ LET srv == hp[t].srv
         kill_data == ParsedLine[hp[t].lines[hp[t].i]]
     IN
     \/ kill_events' = [kill_events EXCEPT
                          ![srv] = add_kill_event(@, srv[1], srv[2], kill_data)]
     \/ UNCHANGED kill_events
  /\ \E d \in TimeOf(t) :
       hp' = [hp EXCEPT ![t].pc = "update_pvp_stats", ![t].upd = 1,
                        ![t].clock = Later(@, d)]
  /\ UNCHANGED <<parsed_lines, active_refreshes, pvp_data, kf, budget, hist,
                 guilds, removal, call, others>>

\* Lines 279-284 from line j on, and lines 308-317 when no event is left.
HpNextLine(t, count, clock) ==
  LET j == next_event(hp[t].lines, hp[t].i + 1) IN
  IF j <= Len(hp[t].lines)
  THEN /\ hp' = [hp EXCEPT ![t].pc = "add_kill_event", ![t].i = j, ![t].upd = 0,
                           ![t].processed_count = count, ![t].clock = clock]
       /\ UNCHANGED active_refreshes
  ELSE HpAfterLoop(t, active_refreshes, hp[t].lines, count, clock)

\* HpUpdatePvpStats without the test of lines 303-306.
HpUpdatePvpStats_NoProgress(t) ==
  /\ hp[t].pc = "update_pvp_stats"
  /\ LET srv == hp[t].srv
         updates == refresh_updates(ParsedLine[hp[t].lines[hp[t].i]])
         u == updates[hp[t].upd]
     IN
     /\ pvp_data' = update_pvp_stats(pvp_data, srv[1], srv[2], u[1], u[2])
     /\ \E d \in TimeOf(t) :
          IF hp[t].upd < Len(updates)
          THEN /\ hp' = [hp EXCEPT ![t].upd = @ + 1, ![t].clock = Later(@, d)]
               /\ UNCHANGED active_refreshes
          ELSE HpNextLine(t, hp[t].processed_count + 1, Later(hp[t].clock, d))
  /\ UNCHANGED <<parsed_lines, kill_events, kf, budget, hist, guilds, removal, call, others>>

\* Lines 289-306: one update_pvp_stats call; after the last one the count, the
\* test of the clock, and without a progress update the loop up to the next
\* event.
HpUpdatePvpStats(t) ==
  /\ hp[t].pc = "update_pvp_stats"
  /\ LET srv == hp[t].srv
         updates == refresh_updates(ParsedLine[hp[t].lines[hp[t].i]])
         u == updates[hp[t].upd]
     IN
     /\ pvp_data' = update_pvp_stats(pvp_data, srv[1], srv[2], u[1], u[2])
     /\ \E d \in TimeOf(t) :
          LET current == Later(hp[t].clock, d) IN
          IF hp[t].upd < Len(updates)
          THEN /\ hp' = [hp EXCEPT ![t].upd = @ + 1, ![t].clock = current]
               /\ UNCHANGED active_refreshes
          ELSE IF HasChannel(t) /\ current.since_update >= ProgressSeconds
          THEN /\ hp' = [hp EXCEPT ![t].pc = "update_progress", ![t].upd = 0,
                                   ![t].processed_count = @ + 1,
                                   ![t].clock = current]
               /\ UNCHANGED active_refreshes
          ELSE HpNextLine(t, hp[t].processed_count + 1, current)
  /\ UNCHANGED <<parsed_lines, kill_events, kf, budget, hist, guilds, removal, call, others>>

\* Lines 305-306: update_progress_embed (its failure is swallowed, lines
\* 189-190), last_update_time = current_time, and the loop up to the next
\* event.
HpUpdateProgress(t) ==
  /\ hp[t].pc = "update_progress"
  /\ \E d \in TimeOf(t) :
       HpNextLine(t, hp[t].processed_count,
                  Later([SinkCalled(hp[t].clock) EXCEPT !.since_update = 0], d))
  /\ UNCHANGED <<parsed_lines, pvp_data, kill_events, kf, budget, hist,
                 guilds, removal, call, others>>

\* Lines 311-317: complete_progress_embed, the release and `return True`.
HpComplete(t) ==
  /\ hp[t].pc = "complete"
  /\ hp' = [hp EXCEPT ![t] = [HpReturn(t, "completed") EXCEPT
                                !.processed_count = hp[t].processed_count]]
  /\ active_refreshes' = (server_key(hp[t].srv) :> FALSE) @@ active_refreshes
  /\ UNCHANGED <<parsed_lines, pvp_data, kill_events, kf, budget, hist,
                 guilds, removal, call, others>>

\* The caller has the result (Premium.server_refresh, lines 605-609).
HpCallerResumes(t) ==
  /\ hp[t].pc = "returned"
  /\ hp' = [hp EXCEPT ![t] = HpIdle]
  /\ UNCHANGED <<parsed_lines, active_refreshes, pvp_data, kill_events, kf, budget, hist,
                 guilds, removal, call, others>>

\* A step of a call that is under way (every awaited call returns or raises).
HpProceeds(t) ==
  \/ HpSendInitial(t)
  \/ HpClearPvp(t)
  \/ HpClearEvents(t)
  \/ HpFetch(t)
  \/ HpAddKillEvent(t)
  \/ HpUpdatePvpStats(t)
  \/ HpUpdateProgress(t)
  \/ HpComplete(t)

\* A step of task t: its call starts, goes on, or is over for the caller.
HpStep(t) ==
  \/ HpStart(t)
  \/ HpProceeds(t)
  \/ HpCallerResumes(t)

\* Premium.server_add, lines 317-410: the server is added to the guild and
\* the response is on its way (`await ctx.respond`, line 411).
ServerAdd(t) ==
  /\ ~HasChannel(t)
  /\ hp[t].pc = "idle" /\ hp[t].caller = "none"
  /\ \E srv \in ServerSet :
       hp' = [hp EXCEPT ![t].caller = "respond", ![t].srv = srv]
  /\ UNCHANGED <<parsed_lines, active_refreshes, pvp_data, kill_events, kf, budget, hist,
                 guilds, removal, call, others>>

\* Premium.server_add, lines 411-418: the response is sent, and then
\* asyncio.create_task makes the task of auto_refresh_after_server_add, which
\* begins to sleep; when ctx.respond raises, lines 422-424, and no task is made.
ServerAddResponded(t) ==
  /\ hp[t].caller = "respond"
  /\ \/ hp' = [hp EXCEPT ![t].caller = "sleep", ![t].slept = 0]
     \/ hp' = [hp EXCEPT ![t] = HpIdle]
  /\ UNCHANGED <<parsed_lines, active_refreshes, pvp_data, kill_events, kf, budget, hist,
                 guilds, removal, call, others>>

\* auto_refresh_after_server_add, line 328: the time of the sleep passes.
AutoSleep(t) ==
  /\ hp[t].pc = "idle" /\ hp[t].caller = "sleep"
  /\ hp[t].slept < AutoRefreshDelay
  /\ \E d \in SleepSteps :
       hp' = [hp EXCEPT ![t].slept = Min(@ + d, AutoRefreshDelay)]
  /\ UNCHANGED <<parsed_lines, active_refreshes, pvp_data, kill_events, kf, budget, hist,
                 guilds, removal, call, others>>

\* The registration of a server up to the call its task makes.
NextAdd ==
  \/ ServerAdd("auto_refresh")
  \/ ServerAddResponded("auto_refresh")
  \/ AutoSleep("auto_refresh")

NextHp == NextAdd \/ \E t \in Tasks : HpStep(t)

\* The scheduled job together with the refresh of the slash command.
NextMix == NextKf \/ HpStep("server_refresh")

Next == NextKf \/ NextHp

\* The scheduled job and the refresh calls together.
Init == InitWith(MaxFed)
Spec == Init /\ [][Next]_vars

\* The scheduled job alone.
InitKf == InitWith(MaxFedKf)
SpecKf == InitKf /\ [][NextKf]_vars

\* The process ends, at any await, and a new one starts: KillfeedParser.__init__
\* (lines 31-34) and HistoricalParser.__init__ build their maps empty, every
\* coroutine is gone, the store is as it was.
Restart ==
  /\ ~hist.restarted
  /\ parsed_lines' = [k \in {} |-> {}]
  /\ kf' = KfIdle
  /\ hp' = [t \in Tasks |-> HpIdle]
  /\ active_refreshes' = [k \in {} |-> FALSE]
  /\ hist' = [NoHistory EXCEPT
                !.restarted = TRUE,
                !.before = [srv \in ServerSet |-> Get(parsed_lines, server_key(srv), {})]]
  /\ UNCHANGED <<pvp_data, kill_events, budget, guilds, removal, call, others>>

\* The scheduled job in a process that is started again once.
NextRestart == NextKf \/ Restart
InitRestart == InitWith(MaxFedRestart)
SpecRestart == InitRestart /\ [][NextRestart]_vars

\* DatabaseManager.update_guild_servers(guild_id, servers): the guild's
\* servers are replaced by the given ones.
update_guild_servers(coll, g, servers) ==
  LET Kept(e) == e[1] # g \/ \E n \in 1..Len(servers) : servers[n] = e
  IN SelectSeq(coll, Kept)

\* DatabaseManager.clear_server_pvp_data(guild_id, server_id): the records of
\* the server are deleted.
clear_server_pvp_data(coll, g, s) == {d \in coll : ~(d.guild_id = g /\ d.server_id = s)}

\* Premium.server_remove, lines 431-457: get_guild, and the servers of the
\* guild without the one to remove; a server that is not found ends the
\* command.
RemoveGetGuild ==
  /\ removal.pc = "idle"
  /\ \E srv \in ServerSet :
       LET Other(e) == e[1] = srv[1] /\ e # srv IN
       /\ \E n \in 1..Len(guilds) : guilds[n] = srv
       /\ removal' = [removal EXCEPT !.pc = "update_guild_servers", !.srv = srv,
                                     !.updated_servers = SelectSeq(guilds, Other)]
  /\ UNCHANGED <<parsed_lines, active_refreshes, pvp_data, kill_events, kf, hp,
                 budget, hist, guilds, call, others>>

\* Premium.server_remove, lines 460-462 and 493-494: update_guild_servers, or
\* its failure and the end of the command.
RemoveUpdateGuildServers ==
  /\ removal.pc = "update_guild_servers"
  /\ \/ /\ guilds' = update_guild_servers(guilds, removal.srv[1], removal.updated_servers)
        /\ removal' = [removal EXCEPT !.pc = "clear_server_pvp_data"]
     \/ /\ removal' = [NoRemoval EXCEPT !.removed = removal.removed]
        /\ UNCHANGED guilds
  /\ UNCHANGED <<parsed_lines, active_refreshes, pvp_data, kill_events, kf, hp,
                 budget, hist, call, others>>

\* RemoveClearPvpData with a command that ends once the list is updated.
RemoveClearPvpData_ListOnly ==
  /\ removal.pc = "clear_server_pvp_data"
  /\ removal' = [removal EXCEPT !.pc = "respond", !.removed = @ \cup {removal.srv}]
  /\ UNCHANGED <<parsed_lines, active_refreshes, pvp_data, kill_events, kf, hp,
                 budget, hist, guilds, call, others>>

\* Premium.server_remove, line 464: clear_server_pvp_data; the server is
\* removed.
RemoveClearPvpData ==
  /\ removal.pc = "clear_server_pvp_data"
  /\ pvp_data' = clear_server_pvp_data(pvp_data, removal.srv[1], removal.srv[2])
  /\ removal' = [removal EXCEPT !.pc = "respond", !.removed = @ \cup {removal.srv}]
  /\ UNCHANGED <<parsed_lines, active_refreshes, kill_events, kf, hp,
                 budget, hist, guilds, call, others>>

\* Premium.server_remove, line 492: the response.
RemoveRespond ==
  /\ removal.pc = "respond"
  /\ removal' = [NoRemoval EXCEPT !.removed = removal.removed]
  /\ UNCHANGED <<parsed_lines, active_refreshes, pvp_data, kill_events, kf, hp,
                 budget, hist, guilds, call, others>>

NextRemove ==
  \/ RemoveGetGuild
  \/ RemoveUpdateGuildServers
  \/ RemoveClearPvpData
  \/ RemoveRespond

\* The scheduled job and the removal of servers.
MaxFedRemove == 2
InitRemove == InitWith(MaxFedRemove)
SpecRemove == InitRemove /\ [][NextKf \/ NextRemove]_vars

\* The scheduled job over logs of one file that holds LinePvp with and without
\* the blank behind it.
MaxFedPadded == 3
PaddedRemotes ==
  [dev_mode : BOOLEAN, credentials : {TRUE}, connect : {TRUE}, directory : {TRUE},
   listing : {TRUE}, read : {TRUE},
   files : {<<FileOf(1, 1, TRUE, b)>> : b \in SeqsUpTo(PaddedLines, MaxBatch)}]
PaddedFetchResults ==
  {[lines |-> kf_fetch(r), failed |-> TransportFails(r)] : r \in PaddedRemotes}
KfFetchPadded == KfFetchFrom(PaddedFetchResults)
NextPadded ==
  \/ RunKillfeedParser
  \/ KfServerFails
  \/ KfFetchPadded
  \/ KfAddKillEvent
  \/ KfUpdatePvpStats
  \/ KfSendEmbed
InitPadded == InitWith(MaxFedPadded)
SpecPadded == InitPadded /\ [][NextPadded]_vars

\* The texts of the fields of the lines parse_csv_line is called with.
PTimestamps == {<<TsIso>>, <<TsAlt>>, <<TsBad>>}
PNames == {<<"Alice">>, <<"Bob">>, <<>>}
PWeapons ==
  {<<"AK74">>, <<"Suicide">>, <<"suicide">>, <<"Suicide_by_relocation">>,
   <<"Relocation">>, <<"Suicide", Ws, "Relocation">>, <<Ws, "Suicide">>,
   <<"Vehicle_suicide">>}
PDistances ==
  {<<"150.5">>, <<"0">>, <<"-5">>, <<"N/A">>, <<>>, <<"far">>, <<Ws>>,
   <<Ws, "150.5", Ws>>, <<"150.5", Ws, "0">>}

\* The most fields a line has.
MaxFields == 6

\* A line by its fields: the first `fields` of timestamp, killer, victim,
\* weapon, distance and further ones, and whether blanks surround it.
ParseInputs ==
  [timestamp : PTimestamps, killer : PNames, victim : PNames, weapon : PWeapons,
   distance : PDistances, fields : 1..MaxFields, padded : BOOLEAN]

\* ','.join(fields)
RECURSIVE join(_)
join(fields) ==
  IF Len(fields) = 0 THEN <<>>
  ELSE IF Len(fields) = 1 THEN fields[1]
  ELSE fields[1] \o <<Comma>> \o join(Tail(fields))

\* The text of the line of an input.
LineOf(in) ==
  LET all == <<in.timestamp, in.killer, in.victim, in.weapon, in.distance>>
               \o [n \in 1..(MaxFields - 5) |-> <<"extra">>]
      text == join(SubSeq(all, 1, in.fields))
  IN IF in.padded THEN <<Ws>> \o text \o <<Ws>> ELSE text

\* parse_csv_line(line) is called for a line of the log, and returns.
InitParse ==
  /\ parsed_lines = [k \in {} |-> {}]
  /\ active_refreshes = [k \in {} |-> FALSE]
  /\ pvp_data = {SeedDoc}
  /\ kill_events = [srv \in ServerSet |-> <<>>]
  /\ kf = KfIdle
  /\ hp = [t \in Tasks |-> HpIdle]
  /\ budget = 0
  /\ hist = NoHistory
  /\ guilds = Servers
  /\ removal = NoRemoval
  /\ NoCommands
  /\ \E in \in ParseInputs : call = [pc |-> "called", input |-> in, line |-> LineOf(in)]
ParseCsvLine ==
  /\ call.pc = "called"
  /\ call' = [pc |-> "returned", input |-> call.input, line |-> call.line,
              result |-> parse_csv_line(call.line)]
  /\ UNCHANGED <<parsed_lines, active_refreshes, pvp_data, kill_events, kf, hp,
                 budget, hist, guilds, removal, others>>
SpecParse == InitParse /\ [][ParseCsvLine]_vars

\* The SSH and SFTP session of one get_sftp_csv_files call when it returns:
\* "none" when ssh.connect was not reached or raised, "closed" after
\* sftp.close() and ssh.close(), "open" otherwise.
\* KillfeedParser.get_sftp_csv_files.
kf_sftp_session(remote) ==
  IF ~remote.credentials THEN "none"                     \* line 95
  ELSE IF ~remote.connect THEN "none"                    \* line 100 raises
  ELSE IF ~remote.directory THEN "open"                  \* line 116
  ELSE IF ~remote.listing THEN "open"                    \* line 138
  ELSE IF csv_files(remote.files) = <<>> THEN "closed"   \* lines 132-134
  ELSE IF ~remote.read THEN "open"                       \* line 138
  ELSE "closed"                                          \* lines 127-130

\* HistoricalParser.get_sftp_csv_files.
hp_sftp_session(remote) ==
  IF ~remote.credentials THEN "none"                     \* line 88
  ELSE IF ~remote.connect THEN "none"                    \* line 93 raises
  ELSE IF ~remote.directory THEN "closed"                \* lines 119-124
  ELSE IF ~remote.listing THEN "open"                    \* line 128
  ELSE IF csv_files(remote.files) # <<>> /\ ~remote.read THEN "open"  \* line 128
  ELSE "closed"                                          \* lines 122-124

\* One fetch of either parser against a remote, in SFTP mode.
SftpRemotes == {r \in Remotes : ~r.dev_mode}
InitFetch ==
  /\ parsed_lines = [k \in {} |-> {}]
  /\ active_refreshes = [k \in {} |-> FALSE]
  /\ pvp_data = {SeedDoc}
  /\ kill_events = [srv \in ServerSet |-> <<>>]
  /\ kf = KfIdle
  /\ hp = [t \in Tasks |-> HpIdle]
  /\ budget = 0
  /\ hist = NoHistory
  /\ guilds = Servers
  /\ removal = NoRemoval
  /\ NoCommands
  /\ \E r \in SftpRemotes : call = [pc |-> "fetch", remote |-> r]
KfGetSftpCsvFiles ==
  /\ call.pc = "fetch"
  /\ call' = [pc |-> "fetched", remote |-> call.remote,
              lines |-> kf_get_sftp_csv_files(call.remote),
              session |-> kf_sftp_session(call.remote)]
  /\ UNCHANGED <<parsed_lines, active_refreshes, pvp_data, kill_events, kf, hp,
                 budget, hist, guilds, removal, others>>
HpGetSftpCsvFiles ==
  /\ call.pc = "fetch"
  /\ call' = [pc |-> "fetched", remote |-> call.remote,
              lines |-> hp_get_sftp_csv_files(call.remote),
              session |-> hp_sftp_session(call.remote)]
  /\ UNCHANGED <<parsed_lines, active_refreshes, pvp_data, kill_events, kf, hp,
                 budget, hist, guilds, removal, others>>
NextFetch == KfGetSftpCsvFiles \/ HpGetSftpCsvFiles
SpecFetch == InitFetch /\ [][NextFetch]_vars

\* The scheduled job, run again and again, over the log files of one server
\* while the game server writes them.  Every line is written once; a write
\* makes its file the most recently modified one.
MaxFiles == 2
Written ==
  UNION {LineSet(deathlogs[n].lines) : n \in 1..Len(deathlogs)}
NewestMtime ==
  IF deathlogs = <<>> THEN 0
  ELSE most_recent(deathlogs).mtime

\* The game server appends a line to one of its log files.
AppendLine ==
  /\ \E n \in 1..Len(deathlogs) : \E l \in Lines \ Written :
       deathlogs' = [deathlogs EXCEPT ![n].lines = Append(@, l),
                                      ![n].mtime = NewestMtime + 1]
  /\ UNCHANGED <<parsed_lines, active_refreshes, pvp_data, kill_events, kf, hp, budget,
                 hist, guilds, removal, call, adding, sethome, home_servers>>

\* The game server starts a new log file with a first line.
NewFile ==
  /\ Len(deathlogs) < MaxFiles
  /\ \E l \in Lines \ Written :
       deathlogs' = Append(deathlogs,
                           FileOf(Len(deathlogs) + 1, NewestMtime + 1, TRUE, <<l>>))
  /\ UNCHANGED <<parsed_lines, active_refreshes, pvp_data, kill_events, kf, hp, budget,
                 hist, guilds, removal, call, adding, sethome, home_servers>>

\* The directory as a fetch finds it when every transport step succeeds.
RemoteOf(files) ==
  [dev_mode |-> TRUE, credentials |-> TRUE, connect |-> TRUE, directory |-> TRUE,
   listing |-> TRUE, read |-> TRUE, files |-> files]

\* parse_server_killfeed up to its first store call, the fetch reading the
\* directory as it is now.
KfFetchLogs ==
  /\ kf.pc = "fetch"
  /\ LET lines == kf_fetch(RemoteOf(deathlogs))
         srv == Head(kf.queue)
         key == server_key(srv)
         seen == Get(parsed_lines, key, {})
         j == next_new_event(lines, 1, seen)
     IN
     /\ hist' = [hist EXCEPT
                   !.fed[srv] = @ \cup LineSet(lines),
                   !.refed[srv] = @ \cup (hist.fed[srv] \cap LineSet(lines)),
                   !.pending[srv] = NewEvents(lines, seen),
                   !.failed = FALSE]
     /\ IF lines = <<>>
        THEN /\ kf' = KfNextServer
             /\ UNCHANGED parsed_lines
        ELSE /\ parsed_lines' = (key :> seen) @@ parsed_lines
             /\ kf' = IF j <= Len(lines)
                      THEN [kf EXCEPT !.pc = "add_kill_event", !.lines = lines, !.i = j]
                      ELSE KfNextServer
  /\ UNCHANGED <<active_refreshes, pvp_data, kill_events, hp, budget, guilds, removal,
                 call, others>>

\* The steps of the scheduled job, which the scheduler starts every 300
\* seconds (schedule_killfeed_parser), and the writes of the game server.
NextKfLogs ==
  \/ RunKillfeedParser
  \/ KfFetchLogs
  \/ KfAddKillEvent
  \/ KfUpdatePvpStats
  \/ KfSendEmbed
NextRotate == NextKfLogs \/ AppendLine \/ NewFile
InitRotate ==
  /\ parsed_lines = [k \in {} |-> {}]
  /\ active_refreshes = [k \in {} |-> FALSE]
  /\ pvp_data = {SeedDoc}
  /\ kill_events = [srv \in ServerSet |-> <<>>]
  /\ kf = KfIdle
  /\ hp = [t \in Tasks |-> HpIdle]
  /\ budget = 0
  /\ hist = NoHistory
  /\ guilds = <<Servers[1]>>
  /\ removal = NoRemoval
  /\ call = NoCall
  /\ NoCommands
SpecRotate == InitRotate /\ [][NextRotate]_vars
FairSpecRotate == SpecRotate /\ WF_vars(NextKfLogs)

(***************************************************************************)
(* Premium.server_add and Premium.sethome.  The commands of a guild run as *)
(* coroutines of one event loop: each await is a point where another one   *)
(* can run.  The server_add commands are of guild "1", which exists.       *)
(***************************************************************************)
AddGuild == "1"
AddServerIds == {"s1", "s2"}
\* datetime.now() of line 363, as two calls can read it.
AddedAt == {1, 2}

\* guild_config.get('servers', []) holds an entry with this server_id
\* (lines 348-353).
server_exists(coll, g, serverid) ==
  \E n \in 1..Len(coll) : coll[n][1] = g /\ coll[n][2] = serverid

\* DatabaseManager.add_server_to_guild: $addToSet appends server_config unless
\* an equal document is in the list; the value is modified_count > 0.
add_server_to_guild(coll, server_config) ==
  IF \E n \in 1..Len(coll) : coll[n] = server_config
  THEN [coll |-> coll, success |-> FALSE]
  ELSE [coll |-> Append(coll, server_config), success |-> TRUE]

\* Lines 344-365: get_guild, the test for an existing server, and the
\* server_config with its added_at.
AddGetGuild(c) ==
  /\ adding[c].pc = "idle"
  /\ \E serverid \in AddServerIds : \E now \in AddedAt :
       adding' = [adding EXCEPT ![c] =
                    IF server_exists(guilds, AddGuild, serverid)
                    THEN [NoAdd EXCEPT !.pc = "done", !.serverid = serverid]
                    ELSE [NoAdd EXCEPT !.pc = "add_server_to_guild",
                                       !.serverid = serverid, !.added_at = now]]
  /\ UNCHANGED <<parsed_lines, active_refreshes, pvp_data, kill_events, kf, hp, budget,
                 hist, guilds, removal, call, deathlogs, sethome, home_servers>>

\* Line 368: add_server_to_guild; when update_one raises the value is False.
AddServerToGuild(c) ==
  /\ adding[c].pc = "add_server_to_guild"
  /\ LET r == add_server_to_guild(guilds,
                                   <<AddGuild, adding[c].serverid, adding[c].added_at>>)
     IN \/ /\ guilds' = r.coll
           /\ adding' = [adding EXCEPT ![c].pc = "respond", ![c].success = r.success]
        \/ /\ adding' = [adding EXCEPT ![c].pc = "respond"]
           /\ UNCHANGED guilds
  /\ UNCHANGED <<parsed_lines, active_refreshes, pvp_data, kill_events, kf, hp, budget,
                 hist, removal, call, deathlogs, sethome, home_servers>>

\* Lines 370-420: with success the embed is sent and the task of
\* auto_refresh_after_server_add is made; otherwise "Failed to add server".
AddRespond(c) ==
  /\ adding[c].pc = "respond"
  /\ adding' = [adding EXCEPT ![c].pc = "done"]
  /\ UNCHANGED <<parsed_lines, active_refreshes, pvp_data, kill_events, kf, hp, budget,
                 hist, guilds, removal, call, deathlogs, sethome, home_servers>>

\* Lines 40-42: the user is not the bot owner.
SethomeRefused(g) ==
  /\ sethome[g] = "idle"
  /\ sethome' = [sethome EXCEPT ![g] = "refused"]
  /\ UNCHANGED <<parsed_lines, active_refreshes, pvp_data, kill_events, kf, hp, budget,
                 hist, guilds, removal, call, deathlogs, adding, home_servers>>

\* Lines 47-62: guilds.update_one sets is_home_server of the guild.
SethomeUpdateOne(g) ==
  /\ sethome[g] = "idle"
  /\ home_servers' = home_servers \cup {g}
  /\ sethome' = [sethome EXCEPT ![g] = "update_many"]
  /\ UNCHANGED <<parsed_lines, active_refreshes, pvp_data, kill_events, kf, hp, budget,
                 hist, guilds, removal, call, deathlogs, adding>>

\* Lines 65-68: guilds.update_many unsets is_home_server of every other guild.
SethomeUpdateMany(g) ==
  /\ sethome[g] = "update_many"
  /\ home_servers' = home_servers \cap {g}
  /\ sethome' = [sethome EXCEPT ![g] = "respond"]
  /\ UNCHANGED <<parsed_lines, active_refreshes, pvp_data, kill_events, kf, hp, budget,
                 hist, guilds, removal, call, deathlogs, adding>>

\* Lines 70-86: the embed is sent.
SethomeRespond(g) ==
  /\ sethome[g] = "respond"
  /\ sethome' = [sethome EXCEPT ![g] = "done"]
  /\ UNCHANGED <<parsed_lines, active_refreshes, pvp_data, kill_events, kf, hp, budget,
                 hist, guilds, removal, call, deathlogs, adding, home_servers>>

NextPremium ==
  \/ \E c \in AddCalls : AddGetGuild(c) \/ AddServerToGuild(c) \/ AddRespond(c)
  \/ \E g \in HomeGuilds :
       \/ SethomeRefused(g)
       \/ SethomeUpdateOne(g)
       \/ SethomeUpdateMany(g)
       \/ SethomeRespond(g)
InitPremium == InitWith(0)
SpecPremium == InitPremium /\ [][NextPremium]_vars

\* The scheduled job and one refresh call, with lines for both.
InitMix == InitWith(MaxFedMix)
SpecMix == InitMix /\ [][NextMix]_vars

\* The refresh calls alone.
InitHp == InitWith(MaxFedHp)
SpecHp == InitHp /\ [][NextHp]_vars

\* The refresh calls alone, on an event loop that resumes every task whose
\* awaited call is over.
FairSpecHp == SpecHp /\ \A t \in Tasks : WF_vars(HpProceeds(t))

(***************************************************************************)
(* What the claims speak of.                                               *)
(***************************************************************************)
\* The value of counter f of player p on srv: the document's, 0 without one.
Counter(coll, srv, p, f) ==
  LET found == find_docs(coll, srv[1], srv[2], p) IN
  IF found = {} THEN 0 ELSE (CHOOSE d \in found : TRUE)[f]

HasRecord(coll, srv, p) == find_docs(coll, srv[1], srv[2], p) # {}

\* The documents the store held when the process started.
InitialPvpData == {SeedDoc}

\* The lines fetched for srv so far that parse into an event.
FedEvents(srv) ==
  {l \in hist.fed[srv] : ~BlankLine[l] /\ ParsedLine[l].ok}

\* The scheduled job is inside process_kill_event for kill_data.
KfKillData == ParsedLine[kf.lines[kf.i]]
KfSrv == Head(kf.queue)

\* C1: idempotence of incremental ingestion.  Once a pass is over, and some
\* line was fed twice to a server (in one batch or across batches), every
\* counter of that server stands at its initial value plus one contribution
\* per distinct fed event: a kill for the killer and a death for the victim
\* of a PvP event, a suicide for the victim of a suicide.
C1_IdempotentIngestion ==
  kf.pc = "idle" =>
    \A srv \in ServerSet :
      (FedEvents(srv) \cap hist.refed[srv] # {}) =>
        \A p \in Players :
          /\ Counter(pvp_data, srv, p, "kills")
               = Counter(InitialPvpData, srv, p, "kills")
                 + Cardinality({l \in FedEvents(srv) :
                     ~ParsedLine[l].is_suicide /\ ParsedLine[l].killer = p})
          /\ Counter(pvp_data, srv, p, "deaths")
               = Counter(InitialPvpData, srv, p, "deaths")
                 + Cardinality({l \in FedEvents(srv) :
                     ~ParsedLine[l].is_suicide /\ ParsedLine[l].victim = p})
          /\ Counter(pvp_data, srv, p, "suicides")
               = Counter(InitialPvpData, srv, p, "suicides")
                 + Cardinality({l \in FedEvents(srv) :
                     ParsedLine[l].is_suicide /\ ParsedLine[l].victim = p})

\* A document of player p on srv with all counters at their defaults.
ZeroedBut(coll, srv, p, f) ==
  \A g \in {"kills", "deaths", "suicides"} \ {f} : Counter(coll, srv, p, g) = 0

\* C5: applyEvent of a PvP event.  The call that updates the killer raises
\* the killer's kills by exactly 1 and the call that updates the victim
\* raises the victim's deaths by exactly 1; a record that did not exist
\* exists afterwards, with its other counters zero.
C5_PvpStep ==
  (kf.pc = "update_pvp_stats" /\ ~KfKillData.is_suicide /\ kf' # kf) =>
    LET who == IF kf.upd = 1 THEN KfKillData.killer ELSE KfKillData.victim
        f == IF kf.upd = 1 THEN "kills" ELSE "deaths"
    IN
    /\ HasRecord(pvp_data', KfSrv, who)
    /\ Counter(pvp_data', KfSrv, who, f) = Counter(pvp_data, KfSrv, who, f) + 1
    /\ ~HasRecord(pvp_data, KfSrv, who) => ZeroedBut(pvp_data', KfSrv, who, f)
C5_PvpIncrements == [][C5_PvpStep]_vars

\* C6: applyEvent of a suicide event.  The update raises the victim's
\* suicides by exactly 1 and leaves kills and deaths of the killer's and of
\* the victim's record as they were.
C6_SuicideStep ==
  (kf.pc = "update_pvp_stats" /\ KfKillData.is_suicide /\ kf' # kf) =>
    /\ Counter(pvp_data', KfSrv, KfKillData.victim, "suicides")
         = Counter(pvp_data, KfSrv, KfKillData.victim, "suicides") + 1
    /\ \A p \in {KfKillData.killer, KfKillData.victim} :
         \A f \in {"kills", "deaths"} :
           Counter(pvp_data', KfSrv, p, f) = Counter(pvp_data, KfSrv, p, f)
C6_SuicideIncrements == [][C6_SuicideStep]_vars

\* The guard of srv is held.
Held(srv) == Get(active_refreshes, server_key(srv), FALSE)

\* The calls in the Running state for srv.
Holders(srv) == {t \in Tasks : Running(t) /\ server_key(hp[t].srv) = server_key(srv)}

\* C2: re-entrancy guard.  At most one call per (guild, server) is Running;
\* a call issued while another is Running for its server returns False at
\* once (it is not queued), and that step changes neither the store, nor the
\* guard, nor the state of the running call.
C2_AtMostOneRunning == \A srv \in ServerSet : Cardinality(Holders(srv)) <= 1
C2_RejectStep ==
  \A t \in Tasks :
    (hp[t].pc = "idle" /\ hp'[t].pc # "idle" /\ Holders(hp'[t].srv) # {}) =>
      /\ hp'[t].pc = "returned"
      /\ hp'[t].exit = "rejected"
      /\ UNCHANGED <<pvp_data, kill_events, active_refreshes, parsed_lines>>
      /\ \A o \in Tasks \ {t} : hp'[o] = hp[o]
C2_ReentrancyGuard == []C2_AtMostOneRunning /\ [][C2_RejectStep]_vars

\* A call was rejected while another call is in its line loop for that server.
C2_Witness ==
  \E t, o \in Tasks :
    /\ hp[t].pc = "returned" /\ hp[t].exit = "rejected" /\ ~ReturnValue(t)
    /\ hp[o].pc \in {"add_kill_event", "update_pvp_stats"}
    /\ hp[o].srv = hp[t].srv

\* C3: guard release.  The guard of a server is held only while a call is
\* Running for it, so every exit path has released it, and a held guard is
\* eventually released: a later call for the server is accepted.
C3_HeldOnlyWhileRunning == \A srv \in ServerSet : Held(srv) => Holders(srv) # {}
C3_GuardReleased ==
  /\ []C3_HeldOnlyWhileRunning
  /\ \A srv \in ServerSet : Held(srv) ~> ~Held(srv)

\* A call has left through the exception handler and its guard is free.
C3_Witness ==
  \E t \in Tasks :
    /\ hp[t].pc = "returned" /\ hp[t].exit = "failed"
    /\ server_key(hp[t].srv) \in DOMAIN active_refreshes
    /\ ~Held(hp[t].srv)

\* The documents of (guild, server) in a collection.
ServerDocs(coll, srv) == {d \in coll : d.guild_id = srv[1] /\ d.server_id = srv[2]}

\* A batch of valid PvP-kill lines, each crediting a distinct killer once,
\* no killer being also a victim.
DistinctPvpKills(lines) ==
  /\ lines # <<>>
  /\ \A i \in 1..Len(lines) :
       ~BlankLine[lines[i]] /\ ParsedLine[lines[i]].ok /\ ~ParsedLine[lines[i]].is_suicide
  /\ \A i, j \in 1..Len(lines) :
       /\ i # j => ParsedLine[lines[i]].killer # ParsedLine[lines[j]].killer
       /\ ParsedLine[lines[i]].killer # ParsedLine[lines[j]].victim

\* C4: historical refresh is destructive-then-rebuild.  When a call returns
\* True after a batch of valid PvP-kill lines with distinct killers, its
\* server holds a record with kills = 1, deaths = 0 for every killer and one
\* with kills = 0, deaths = 1 for every victim, no other record, and no more
\* kill events than the batch has lines.
C4_RefreshStep ==
  \A t \in Tasks :
    (Running(t) /\ hp'[t].pc = "returned" /\ hp'[t].exit = "completed"
       /\ DistinctPvpKills(hp[t].lines)) =>
      LET srv == hp[t].srv
          lines == hp[t].lines
          killers == {ParsedLine[lines[i]].killer : i \in 1..Len(lines)}
          victims == {ParsedLine[lines[i]].victim : i \in 1..Len(lines)}
      IN
      /\ \A p \in killers :
           /\ HasRecord(pvp_data', srv, p)
           /\ Counter(pvp_data', srv, p, "kills") = 1
           /\ Counter(pvp_data', srv, p, "deaths") = 0
      /\ \A p \in victims :
           /\ HasRecord(pvp_data', srv, p)
           /\ Counter(pvp_data', srv, p, "kills") = 0
           /\ Counter(pvp_data', srv, p, "deaths") = 1
      /\ \A d \in ServerDocs(pvp_data', srv) : d.player_name \in killers \cup victims
      /\ Len(kill_events'[srv]) <= Len(lines)
C4_DestructiveThenRebuild == [][C4_RefreshStep]_vars

ClearStep ==
  \E t \in Tasks : hp[t].pc = "clear_pvp" /\ hp'[t].pc = "clear_events"

\* C8: monotonicity.  In every step other than the bulk clear of a historical
\* refresh, every record is still there afterwards with kills, deaths and
\* suicides at least what they were.
C8_MonotoneStep ==
  ~ClearStep =>
    \A d \in pvp_data :
      \E e \in pvp_data' :
        /\ e.guild_id = d.guild_id /\ e.server_id = d.server_id
        /\ e.player_name = d.player_name
        /\ e.kills >= d.kills /\ e.deaths >= d.deaths /\ e.suicides >= d.suicides
C8_Monotonicity == [][C8_MonotoneStep]_vars

\* The scheduled job has made both update_pvp_stats calls of a PvP event on a
\* server that holds a record with non-zero counters.
C8_Witness ==
  /\ kf.pc = "send_embed"
  /\ KfSrv = Servers[1]
  /\ kf.lines[kf.i] = LinePvp
  /\ SeedDoc \in pvp_data

\* C9: per-line failure isolation in incremental mode.  Whenever the pass over
\* a server's batch is over, every non-blank, unseen, parseable line of the
\* batch has been handed to process_kill_event, whatever lines failed to
\* parse before it.
C9_FailureIsolation ==
  kf.pc \in {"idle", "fetch"} => \A srv \in ServerSet : hist.pending[srv] = {}

\* The loop is at an event that follows a line which failed to parse.
C9_Witness ==
  /\ kf.pc = "add_kill_event"
  /\ \E k \in 1..(kf.i - 1) : ~BlankLine[kf.lines[k]] /\ ~ParsedLine[kf.lines[k]].ok

\* C10: mark-seen ordering.  Every line in the set of a (guild, server) is
\* non-blank, parsed successfully and has been handed to process_kill_event
\* for that server.
C10_MarkSeenOrdering ==
  \A srv \in ServerSet :
    \A l \in Get(parsed_lines, server_key(srv), {}) :
      /\ ~BlankLine[l]
      /\ ParsedLine[l].ok
      /\ l \in hist.applied[srv]

\* A batch with a skipped line and an event is done: the event is in the set.
C10_Witness ==
  \E srv \in ServerSet :
    /\ Get(parsed_lines, server_key(srv), {}) # {}
    /\ \E l \in hist.fed[srv] : BlankLine[l] \/ ~ParsedLine[l].ok

\* The occurrences among the first n lines that are events: not blank, parsed.
EventCount(lines, n) ==
  Cardinality({k \in 1..n : ~BlankLine[lines[k]] /\ ParsedLine[lines[k]].ok})

\* C11: historical mode bypasses the dedup tracker.  No step of a refresh call
\* changes a dedup set, and the call has processed every event occurrence it
\* has passed: at an event, the count of processed events is the number of
\* event occurrences before it, whatever the dedup sets hold and however
\* often a line occurs; at the completion embed it is the number of event
\* occurrences of the batch.
C11_ProcessedAll ==
  \A t \in Tasks :
    /\ hp[t].pc \in {"add_kill_event", "update_pvp_stats"} =>
         /\ ~BlankLine[hp[t].lines[hp[t].i]] /\ ParsedLine[hp[t].lines[hp[t].i]].ok
         /\ hp[t].processed_count = EventCount(hp[t].lines, hp[t].i - 1)
    /\ hp[t].pc = "complete" =>
         hp[t].processed_count = EventCount(hp[t].lines, Len(hp[t].lines))
C11_RefreshStep == hp' # hp => parsed_lines' = parsed_lines
C11_BypassesDedup == []C11_ProcessedAll /\ [][C11_RefreshStep]_vars

\* A refresh call is at an event whose line the dedup set of its server holds.
C11_Witness ==
  \E t \in Tasks :
    /\ hp[t].pc = "add_kill_event"
    /\ hp[t].lines[hp[t].i] \in Get(parsed_lines, server_key(hp[t].srv), {})

\* C12: transport failure is soft.  A fetch of the scheduled job whose
\* transport fails ends the pass for that server in the same step, which
\* changes no record, no kill event and no dedup set; after it the job is at
\* the next server or done, never inside a line loop.
C12_FailedFetchStep ==
  (kf.pc = "fetch" /\ kf' # kf /\ hist' # hist /\ hist'.failed) =>
    /\ kf' = KfNextServer
    /\ UNCHANGED <<pvp_data, kill_events, parsed_lines>>
C12_SoftTransportFailure ==
  /\ [](hist.failed => kf.pc \in {"idle", "fetch"})
  /\ [][C12_FailedFetchStep]_vars

\* The transport failed for a server while a dedup set holds lines.
C12_Witness ==
  /\ hist.failed
  /\ \E k \in DOMAIN parsed_lines : parsed_lines[k] # {}

\* The step in which the call of task t returns from an empty fetch.
EmptyReturn(t) ==
  hp[t].pc = "fetch" /\ hp'[t].pc = "returned" /\ hp'[t].exit = "empty"

\* C13 as stated: when the fetch is empty the call returns failure with the
\* guard released, and the server has no record and no kill event left.
C13_EmptyStepAsStated ==
  \A t \in Tasks :
    EmptyReturn(t) =>
      /\ hp'[t].exit # "completed"
      /\ ~Get(active_refreshes', server_key(hp[t].srv), FALSE)
      /\ ServerDocs(pvp_data', hp[t].srv) = {}
      /\ kill_events'[hp[t].srv] = <<>>
C13_EmptyStep ==
  \A t \in Tasks :
    EmptyReturn(t) =>
      /\ hp'[t].exit # "completed"
      /\ ~Get(active_refreshes', server_key(hp[t].srv), FALSE)
      /\ "pvp_data" \in hp[t].cleared => ServerDocs(pvp_data', hp[t].srv) = {}
      /\ "kill_events" \in hp[t].cleared => kill_events'[hp[t].srv] = <<>>
C14_NextServerStep ==
  (kf.queue # <<>> /\ kf'.queue # kf.queue) =>
    /\ kf'.queue = Tail(kf.queue)
    /\ kf'.queue # <<>> => kf'.pc = "fetch"
C14_ServerIsolation ==
  /\ [](kf.pc = "idle" <=> kf.queue = <<>>)
  /\ [][C14_NextServerStep]_vars

\* The transport failed for the first server and the pass of the second starts.
C14_Witness ==
  /\ hist.failed
  /\ kf.pc = "fetch"
  /\ kf.queue = Tail(Servers)

\* C15: ordering.  Within a pass the loop only moves forward through the
\* lines of the batch, in the scheduled job and in a refresh alike, and the
\* batch of a refresh holds the lines of the files in ascending modification
\* time.
C15_FilesInMtimeOrder ==
  \A t \in Tasks :
    hp[t].pc \in {"add_kill_event", "update_pvp_stats", "complete"} => hp[t].mtime_order
C15_ForwardStep ==
  /\ (kf.lines # <<>> /\ kf'.lines = kf.lines /\ kf'.queue = kf.queue) => kf'.i >= kf.i
  /\ \A t \in Tasks :
       (hp[t].lines # <<>> /\ hp'[t].lines = hp[t].lines) => hp'[t].i >= hp[t].i
C15_AppliedInOrder == []C15_FilesInMtimeOrder /\ [][C15_ForwardStep]_vars


(***************************************************************************)
(* C16: progress cadence.                                                  *)
(***************************************************************************)

\* The call of task t is in its processing loop (lines 278-306).
InLoop(t) == hp[t].pc \in {"add_kill_event", "update_pvp_stats", "update_progress"}

C17_OneTaskAtATime ==
  \A t \in Tasks : hp[t].caller # "none" => (~HasChannel(t) /\ hp[t].pc = "idle")
C17_RespondStep ==
  \A t \in Tasks :
    (hp[t].caller = "respond" /\ hp'[t].caller # "respond") =>
      /\ hp'[t].pc = "idle"
      /\ hp'[t].caller = "sleep" => (hp'[t].slept = 0 /\ hp'[t].srv = hp[t].srv)
      /\ UNCHANGED <<active_refreshes, pvp_data, kill_events>>
C17_StartStep ==
  \A t \in Tasks :
    (~HasChannel(t) /\ hp[t].pc = "idle" /\ hp'[t].pc # "idle") =>
      /\ hp[t].caller = "sleep"
      /\ hp[t].slept >= AutoRefreshDelay
      /\ hp'[t].srv = hp[t].srv
      /\ hp'[t].caller = "none"
      /\ IF Held(hp[t].srv)
         THEN /\ hp'[t].pc = "returned" /\ hp'[t].exit = "rejected"
              /\ UNCHANGED active_refreshes
         ELSE /\ Running(t)'
              /\ Held(hp[t].srv)'
Reapplied(srv) == hist.before[srv] \cap hist.applied[srv]

\* What pvp_data held when the last process ended is not kept by the model;
\* a counter was then at least what it was at first.
DoubleCounted(srv) ==
  \A p \in Players :
    /\ Counter(pvp_data, srv, p, "kills")
         >= Counter(InitialPvpData, srv, p, "kills")
            + 2 * Cardinality({l \in Reapplied(srv) :
                  ~ParsedLine[l].is_suicide /\ ParsedLine[l].killer = p})
    /\ Counter(pvp_data, srv, p, "deaths")
         >= Counter(InitialPvpData, srv, p, "deaths")
            + 2 * Cardinality({l \in Reapplied(srv) :
                  ~ParsedLine[l].is_suicide /\ ParsedLine[l].victim = p})
    /\ Counter(pvp_data, srv, p, "suicides")
         >= Counter(InitialPvpData, srv, p, "suicides")
            + 2 * Cardinality({l \in Reapplied(srv) :
                  ParsedLine[l].is_suicide /\ ParsedLine[l].victim = p})

\* The restart empties the map and keeps the store.
C18_RestartStep ==
  (~hist.restarted /\ hist'.restarted) =>
    /\ DOMAIN parsed_lines' = {}
    /\ UNCHANGED <<pvp_data, kill_events>>

\* After the restart every event line of a fetched batch is unseen: the pass
\* is to apply it whether or not it was in the set before.
C18_FetchStep ==
  (hist.restarted /\ kf.pc = "fetch" /\ kf'.lines # <<>>
     /\ server_key(KfSrv) \notin DOMAIN parsed_lines) =>
    hist'.pending[KfSrv]
      = {l \in LineSet(kf'.lines) : ~BlankLine[l] /\ ParsedLine[l].ok}

\* Once a pass of the new process is over, the lines it applied again are
\* counted twice.
C18_CountedTwice ==
  (hist.restarted /\ kf.pc = "idle") => \A srv \in ServerSet : DoubleCounted(srv)

\* C18: dedup state is not durable.  A restart leaves the map of parsed
\* lines empty and the store as it was; the next pass of a server takes every
\* event line of its batch as unseen and applies it again, and the counters
\* then hold two contributions of each line that was applied before the
\* restart as well.
C18_NotDurable ==
  /\ [][C18_RestartStep /\ C18_FetchStep]_vars
  /\ []C18_CountedTwice


(***************************************************************************)
(* C19: what a pass touches.                                               *)
(***************************************************************************)

\* The step leaves o's set of parsed lines, its guard, its records and its
\* kill events as they are.
Untouched(o) ==
  /\ Get(parsed_lines', server_key(o), {}) = Get(parsed_lines, server_key(o), {})
  /\ Get(active_refreshes', server_key(o), FALSE)
       = Get(active_refreshes, server_key(o), FALSE)
  /\ ServerDocs(pvp_data', o) = ServerDocs(pvp_data, o)
  /\ kill_events'[o] = kill_events[o]

\* Distinct (guild_id, server_id) pairs have distinct keys.
C19_KeysDistinct ==
  \A a, b \in (GuildIds \X ServerIds) \cup ServerSet :
    server_key(a) = server_key(b) => a = b

\* A step of the scheduled pass of a server leaves every other server
\* untouched, and every guard.
C19_KfStep ==
  (kf' # kf /\ kf.queue # <<>>) =>
    /\ \A o \in ServerSet \ {KfSrv} : Untouched(o)
    /\ active_refreshes' = active_refreshes

\* A step of a refresh of a server leaves every other server untouched, and
\* every set of parsed lines.
C19_HpStep ==
  \A t \in Tasks :
    (hp'[t] # hp[t] /\ (Running(t) \/ Running(t)')) =>
      /\ \A o \in ServerSet \ {IF Running(t) THEN hp[t].srv ELSE hp'[t].srv} :
           Untouched(o)
      /\ parsed_lines' = parsed_lines

\* C19: per-key scoping.  A pass for one (guild_id, server_id), scheduled or
\* historical, changes the set of parsed lines, the guard, the records and
\* the kill events of that pair only, and no two pairs have the same key.
C19_PerKeyScoping ==
  /\ []C19_KeysDistinct
  /\ [][C19_KfStep /\ C19_HpStep]_vars

\* The scheduled pass of the first server has put a line in its set, which
\* the second server's set has not, while a refresh of the second server holds
\* its guard and the guard of the first is free.
C19_Witness ==
  /\ \E l \in Lines : /\ l \in Get(parsed_lines, server_key(Servers[1]), {})
                      /\ l \notin Get(parsed_lines, server_key(Servers[2]), {})
  /\ Held(Servers[2]) /\ ~Held(Servers[1])


(***************************************************************************)
(* C20: what a reader of pvp_data can see.                                 *)
(***************************************************************************)

\* The kdr of document d is the quotient of its own kills and deaths.
KdrCurrent(d) == d.kdr[2] # 0 /\ d.kdr[1] * Max(d.deaths, 1) = d.kills * d.kdr[2]

\* What get_pvp_stats returns to a reader for player p on srv: a document, or
\* nothing.
Readable(srv, p) == find_docs(pvp_data, srv[1], srv[2], p)

\* The scheduled job or a refresh is between the update_pvp_stats calls of
\* one event.
KfBetweenCalls == kf.pc = "update_pvp_stats" /\ kf.upd > 1
HpBetweenCalls(t) == hp[t].pc = "update_pvp_stats" /\ hp[t].upd > 1

\* A step that changes kills or deaths of a record leaves it with the kdr of
\* the new values.
C20_ChangeStep ==
  \A srv \in ServerSet : \A p \in Players :
    \A d \in Readable(srv, p) :
      \A e \in find_docs(pvp_data', srv[1], srv[2], p) :
        (e.kills # d.kills \/ e.deaths # d.deaths) => KdrCurrent(e)

C21_StreakStep ==
  (kf.pc = "update_pvp_stats" /\ ~KfKillData.is_suicide /\ kf' # kf) =>
    IF kf.upd = 1
    THEN /\ Counter(pvp_data', KfSrv, KfKillData.killer, "current_streak")
              = Counter(pvp_data, KfSrv, KfKillData.killer, "current_streak") + 1
         /\ Counter(pvp_data', KfSrv, KfKillData.killer, "longest_streak")
              = Max(Counter(pvp_data, KfSrv, KfKillData.killer, "longest_streak"),
                    Counter(pvp_data', KfSrv, KfKillData.killer, "current_streak"))
    ELSE HasRecord(pvp_data', KfSrv, KfKillData.victim)
           /\ Counter(pvp_data', KfSrv, KfKillData.victim, "current_streak") = 0

\* C21: streak maintenance.  Applying a PvP kill makes the killer's
\* current_streak one more and raises longest_streak to it if it is exceeded,
\* and sets the victim's current_streak to zero; in every record
\* longest_streak is at least current_streak.
C21_StreakMaintenance ==
  /\ [](\A d \in pvp_data : d.longest_streak >= d.current_streak)
  /\ [][C21_StreakStep]_vars


(***************************************************************************)
(* C22: the kill-event log.                                                *)
(***************************************************************************)

\* The step is the add_kill_event call of an event of srv, made by the
\* scheduled job or by a refresh, and kill_data is the event.
KfAdds(srv) == kf.pc = "add_kill_event" /\ kf' # kf /\ KfSrv = srv
HpAdds(t, srv) == hp[t].pc = "add_kill_event" /\ hp'[t] # hp[t] /\ hp[t].srv = srv
AddedEvent(srv) ==
  IF KfAdds(srv) THEN KfKillData
  ELSE ParsedLine[(LET t == CHOOSE t \in Tasks : HpAdds(t, srv)
                   IN hp[t].lines[hp[t].i])]
IsAddStep(srv) == KfAdds(srv) \/ \E t \in Tasks : HpAdds(t, srv)

\* The log of srv is the old one with one entry more, which holds event e.
AppendedOnce(srv, e) ==
  /\ Len(kill_events'[srv]) = Len(kill_events[srv]) + 1
  /\ SubSeq(kill_events'[srv], 1, Len(kill_events[srv])) = kill_events[srv]
  /\ LET doc == kill_events'[srv][Len(kill_events'[srv])] IN
       /\ doc.guild_id = srv[1] /\ doc.server_id = srv[2]
       /\ doc.raw_line = e.raw_line /\ doc.killer = e.killer /\ doc.victim = e.victim

\* The step is the kill_events.delete_many of a refresh of srv.
ClearsEvents(srv) ==
  \E t \in Tasks : hp[t].pc = "clear_events" /\ hp'[t] # hp[t] /\ hp[t].srv = srv

\* C22 as stated: every add_kill_event call appends its event once to the
\* log of its server, and a step that is neither such a call nor the bulk
\* clear of a refresh leaves the log as it is.
C22_AppendStepAsStated ==
  \A srv \in ServerSet :
    IF IsAddStep(srv) THEN AppendedOnce(srv, AddedEvent(srv))
    ELSE IF ClearsEvents(srv) THEN TRUE
    ELSE kill_events'[srv] = kill_events[srv]
C22_AppendStep ==
  \A srv \in ServerSet :
    IF IsAddStep(srv)
    THEN AppendedOnce(srv, AddedEvent(srv)) \/ kill_events'[srv] = kill_events[srv]
    ELSE IF ClearsEvents(srv)
    THEN kill_events'[srv] \in {<<>>, kill_events[srv]}
    ELSE kill_events'[srv] = kill_events[srv]
Registered(srv) == \E n \in 1..Len(guilds) : guilds[n] = srv

\* The scheduled job is in the pass of srv.
KfIngests(srv) == kf.pc \notin {"idle"} /\ KfSrv = srv

C23_RunStep ==
  (kf.pc = "idle" /\ kf' # kf) =>
    \A n \in 1..Len(kf'.queue) : kf'.queue[n] \notin removal.removed

Returned == call.pc = "returned"
ParseableTimestamp(in) == in.timestamp \in {<<TsIso>>, <<TsAlt>>}
EnoughFields(in) == in.fields >= 5

\* The weapon texts that start with "suicide" once lowercased.
SuicideWeapons ==
  {<<"Suicide">>, <<"suicide">>, <<"Suicide_by_relocation">>,
   <<"Suicide", Ws, "Relocation">>}

\* The weapon texts that contain "relocation" once lowercased.
RelocationWeapons ==
  {<<"Suicide_by_relocation">>, <<"Relocation">>, <<"Suicide", Ws, "Relocation">>}

\* The distance texts float() accepts, with their values in tenths.
NumericDistances == {<<"150.5">>, <<"0">>, <<"-5">>, <<Ws, "150.5", Ws>>}
ValueOfDistance(d) ==
  IF d \in {<<"150.5">>, <<Ws, "150.5", Ws>>} THEN 1505
  ELSE IF d = <<"-5">> THEN -50 ELSE 0

\* C24: for every line with at least 5 fields and a parseable timestamp, the
\* parse returns an event whose is_suicide is true if and only if the killer
\* field equals the victim field or the lowercased weapon field starts with
\* "suicide".
C24_SuicideDetection ==
  Returned /\ EnoughFields(call.input) /\ ParseableTimestamp(call.input)
    => /\ call.result.ok
       /\ call.result.is_suicide
            <=> \/ call.input.killer = call.input.victim
                \/ call.input.weapon \in SuicideWeapons

C24_Witness ==
  /\ Returned
  /\ call.input.killer = <<"Alice">> /\ call.input.victim = <<"Bob">>
  /\ call.input.weapon = <<"Suicide">>
  /\ call.result.ok /\ call.result.is_suicide

\* C25: when the parse yields is_suicide the weapon is "Menu Suicide" if the
\* lowercased weapon field contains "relocation" and "Suicide" otherwise; when
\* it yields is_suicide false the weapon is the weapon field unchanged.
C25_WeaponNormalization ==
  Returned /\ call.result.ok
    => call.result.weapon =
         IF call.result.is_suicide
         THEN IF call.input.weapon \in RelocationWeapons
              THEN <<"Menu Suicide">> ELSE <<"Suicide">>
         ELSE call.input.weapon

C25_Witness ==
  /\ Returned /\ call.result.ok
  /\ call.input.killer = call.input.victim
  /\ call.input.weapon = <<"Relocation">>
  /\ call.result.weapon = <<"Menu Suicide">>

\* C26: the parse returns no event for a line of fewer than 5 fields, and for
\* a line of 5 or more fields the outcome is decided by the first five alone:
\* it succeeds exactly when the timestamp parses, and the event carries the
\* first five fields whatever follows them.
C26_MalformedRecords ==
  Returned
    => /\ ~EnoughFields(call.input) => ~call.result.ok
       /\ EnoughFields(call.input)
            => /\ call.result.ok <=> ParseableTimestamp(call.input)
               /\ call.result.ok
                    => /\ call.result.timestamp = call.input.timestamp
                       /\ call.result.killer = call.input.killer
                       /\ call.result.victim = call.input.victim
                       /\ call.result.distance = ValueOfDistance(call.input.distance)

C26_Witness ==
  /\ Returned /\ call.input.fields = MaxFields
  /\ call.result.ok
  /\ call.result.distance = 1505

\* C27: a distance field that is "N/A", empty or not numeric yields distance 0
\* and the parse of an otherwise valid line still returns an event.
C27_DistanceFallback ==
  /\ Returned /\ EnoughFields(call.input) /\ ParseableTimestamp(call.input)
  /\ call.input.distance \notin NumericDistances
  => call.result.ok /\ call.result.distance = 0

C27_Witness ==
  /\ Returned /\ call.input.distance = <<"far">>
  /\ call.result.ok /\ call.result.distance = 0

\* C28: every event the parse returns has distance >= 0, whatever the text of
\* the distance field, numerals with a leading minus sign included.
C28_DistanceNonNegative ==
  Returned /\ call.result.ok => call.result.distance >= 0

\* C29: the lines that have been applied for a key differ after trimming:
\* two raw lines that differ only in leading or trailing whitespace are applied
\* once.
C29_TrimmedSignature ==
  \A srv \in ServerSet :
    \A l1, l2 \in hist.applied[srv] : strip(l1) = strip(l2) => l1 = l2

\* The event a refresh call is applying.
HpKillData(t) == ParsedLine[hp[t].lines[hp[t].i]]

\* The step is one update_pvp_stats call of the scheduled job, of a refresh.
KfUpdates == kf.pc = "update_pvp_stats" /\ kf' # kf
HpUpdates(t) == hp[t].pc = "update_pvp_stats" /\ hp'[t] # hp[t]

\* The step makes the n-th of the calls `updates` for srv, and no call follows
\* it exactly when it is the last of them.
MakesCall(srv, updates, n, last) ==
  /\ n <= Len(updates)
  /\ pvp_data' = update_pvp_stats(pvp_data, srv[1], srv[2], updates[n][1], updates[n][2])
  /\ last <=> n = Len(updates)

\* C30: the two modes apply an event alike.  Each counter update the scheduled
\* job makes for an event is the update the historical loop makes at that
\* place for the same event, with the same effect on the records, and the
\* other way round; both make as many; and either mode leaves the log as one
\* add_kill_event call for the event does.
C30_Step ==
  /\ KfUpdates
       => /\ process_kill_event_updates(KfKillData) = refresh_updates(KfKillData)
          /\ MakesCall(KfSrv, refresh_updates(KfKillData), kf.upd,
                       kf'.pc # "update_pvp_stats")
  /\ \A t \in Tasks :
       HpUpdates(t)
         => /\ refresh_updates(HpKillData(t)) = process_kill_event_updates(HpKillData(t))
            /\ MakesCall(hp[t].srv, process_kill_event_updates(HpKillData(t)), hp[t].upd,
                         hp'[t].pc # "update_pvp_stats")
  /\ \A srv \in ServerSet :
       IsAddStep(srv)
         => kill_events'[srv]
              \in {kill_events[srv],
                   add_kill_event(kill_events[srv], srv[1], srv[2], AddedEvent(srv))}
C30_HistoricalAsIncremental == [][C30_Step]_vars

C30_Witness ==
  /\ kf.pc = "update_pvp_stats" /\ KfKillData.is_suicide
  /\ hp["server_refresh"].pc = "update_pvp_stats"
  /\ HpKillData("server_refresh").is_suicide
  /\ kill_events[KfSrv] # <<>>

\* C31: when a get_sftp_csv_files call of either parser returns, no session
\* it opened is open, whatever the return path: missing directory, empty
\* listing, listing or read failure.
C31_SessionClosed == call.pc = "fetched" => call.session # "open"

\* Premium.server_refresh, lines 609-610: with the value of the call in hand
\* the command is about to send "Historical refresh failed".
ReportsFailure(t) == HasChannel(t) /\ hp[t].pc = "returned" /\ ~ReturnValue(t)

\* C32: a call of the refresh command that was rejected because a refresh of
\* the server was running is not reported to the user as a failed refresh.
C32_RejectionIsNoOp ==
  \A t \in Tasks :
    HasChannel(t) /\ hp[t].pc = "returned" /\ hp[t].exit = "rejected"
      => ~ReportsFailure(t)

\* The log of srv holds an entry of the line of event e.
Logged(srv, e) ==
  \E n \in 1..Len(kill_events[srv]) : kill_events[srv][n].raw_line = e.raw_line

\* C33: a line whose event is in the log of its server, imported by a refresh
\* or applied by an earlier pass, is not applied again by a scheduled pass: no
\* process_kill_event call is made for it.
C33_Step == \A srv \in ServerSet : KfAdds(srv) => ~Logged(srv, KfKillData)
C33_AtMostOnceAcrossModes == [][C33_Step]_vars

\* The refresh call of t for srv is between its clear and its return.
Refreshing(t, srv) == Running(t) /\ hp[t].srv = srv /\ hp[t].cleared # {}

\* The step changes the records or the log of srv.
Writes(srv) ==
  \/ kill_events'[srv] # kill_events[srv]
  \/ ServerDocs(pvp_data', srv) # ServerDocs(pvp_data, srv)

\* C34: while a refresh of a server is between its clear and its return, every
\* step that changes the server's records or its kill-event log is a step of
\* that refresh call.
C34_Step ==
  \A srv \in ServerSet : \A t \in Tasks :
    Refreshing(t, srv) /\ Writes(srv) => hp'[t] # hp[t]
C34_ExclusiveWriter == [][C34_Step]_vars

\* C35: a refresh call applies a fetched line only after both of its clears
\* succeeded: when a delete_many of clear_server_data failed the call makes no
\* add_kill_event or update_pvp_stats call.
C35_NoImportAfterFailedClear ==
  \A t \in Tasks :
    hp[t].pc \in {"add_kill_event", "update_pvp_stats"}
      => hp[t].cleared = {"pvp_data", "kill_events"}

\* C36: the scheduled job marks a line seen only if the log append of its
\* event succeeded: every line in the set of a server has its entry in the
\* server's log (nothing clears the log while only the scheduled job runs).
C36_SeenOnlyIfPersisted ==
  \A srv \in ServerSet :
    \A l \in Get(parsed_lines, server_key(srv), {}) : Logged(srv, ParsedLine[l])

\* C37: with the scheduled job run for ever, every parseable line written to
\* a log file of the server is eventually applied.
C37_EventualIngestion ==
  \A l \in Lines :
    (l \in Written /\ ~BlankLine[l] /\ ParsedLine[l].ok)
      ~> (l \in hist.applied[Servers[1]])

\* C38: the server list of a guild never holds two entries with the same
\* server_id, and of two server_add calls with the same server id at most one
\* has success and makes the auto-refresh task.
C38_UniqueServerIds ==
  /\ \A m, n \in 1..Len(guilds) :
       guilds[m][1] = guilds[n][1] /\ guilds[m][2] = guilds[n][2] => m = n
  /\ \A c, d \in AddCalls :
       /\ adding[c].success /\ adding[d].success
       /\ adding[c].serverid = adding[d].serverid
       => c = d

\* C39: once every sethome call has completed, and one has taken effect,
\* exactly one guild is marked is_home_server.
C39_SingleHomeServer ==
  /\ \A g \in HomeGuilds : sethome[g] \in {"idle", "refused", "done"}
  /\ \E g \in HomeGuilds : sethome[g] = "done"
  => Cardinality(home_servers) = 1

====
